---- MODULE Spec2Model ----
(***************************************************************************)
(* Model of the command terminal: TerminalCore (src/terminal/core.py), the *)
(* console loop (src/terminal/interface.py) and the Flask front end        *)
(* (src/terminal/simple_web_interface.py, src/app.py).                     *)
(*                                                                         *)
(* Text (command lines, paths, output) is a sequence of one-character      *)
(* strings, so that strip/split/lower/join/normpath are computed as the    *)
(* Python code computes them.                                              *)
(***************************************************************************)
EXTENDS Integers, Sequences, FiniteSets, TLC

----------------------------------------------------------------------------
(* Text helpers: str.strip, str.split, str.lower, str.join, startswith     *)

(* Variant: only the space character counts as whitespace                  *)
WhitespaceSpacesOnly == {" "}

Whitespace == {" ", "\t", "\n"}

Lower(s) ==
    LET UpperLetters == <<"A","B","C","D","E","F","G","H","I","J","K","L","M","N","O","P","Q","R","S","T","U","V","W","X","Y","Z">>
        LowerLetters == <<"a","b","c","d","e","f","g","h","i","j","k","l","m","n","o","p","q","r","s","t","u","v","w","x","y","z">>
        LowerChar(c) ==
            IF \E i \in 1..Len(UpperLetters) : UpperLetters[i] = c
            THEN LowerLetters[CHOOSE i \in 1..Len(UpperLetters) : UpperLetters[i] = c]
            ELSE c
    IN  [i \in 1..Len(s) |-> LowerChar(s[i])]

RECURSIVE LStrip(_)
LStrip(s) ==
    IF s # <<>> /\ Head(s) \in Whitespace THEN LStrip(Tail(s)) ELSE s

RECURSIVE RStrip(_)
RStrip(s) ==
    IF s # <<>> /\ s[Len(s)] \in Whitespace
    THEN RStrip(SubSeq(s, 1, Len(s) - 1))
    ELSE s

Strip(s) == RStrip(LStrip(s))

(* Fields of s separated by single characters of seps, empty fields kept   *)
(* (str.split(sep)).                                                       *)
RECURSIVE SplitOn(_, _)
SplitOn(s, seps) ==
    IF \A i \in 1..Len(s) : s[i] \notin seps
    THEN <<s>>
    ELSE LET k == CHOOSE i \in 1..Len(s) :
                     /\ s[i] \in seps
                     /\ \A j \in 1..(i - 1) : s[j] \notin seps
         IN  <<SubSeq(s, 1, k - 1)>> \o SplitOn(SubSeq(s, k + 1, Len(s)), seps)

NonEmptyText(w) == w # <<>>

(* str.split() without separator: runs of whitespace separate, no empty    *)
(* words.                                                                  *)
Split(s) == SelectSeq(SplitOn(s, Whitespace), NonEmptyText)

(* sep.join(parts)                                                         *)
RECURSIVE Join(_, _)
Join(sep, parts) ==
    IF parts = <<>> THEN <<>>
    ELSE IF Len(parts) = 1 THEN parts[1]
    ELSE parts[1] \o sep \o Join(sep, Tail(parts))

StartsWith(s, p) == Len(p) <= Len(s) /\ SubSeq(s, 1, Len(p)) = p

Contains(s, p) ==
    \E i \in 0..(Len(s) - Len(p)) : SubSeq(s, i + 1, i + Len(p)) = p

SeqToSet(s) == {s[i] : i \in 1..Len(s)}

----------------------------------------------------------------------------
(* Paths: posixpath.join, posixpath.normpath, posixpath.abspath,           *)
(* posixpath.basename                                                      *)

Slash == <<"/">>
Dot == <<".">>
DotDot == <<".", ".">>

IsAbs(p) == StartsWith(p, Slash)

PathJoin(a, b) ==
    IF IsAbs(b) THEN b
    ELSE IF a = <<>> \/ a[Len(a)] = "/" THEN a \o b
    ELSE a \o Slash \o b

RECURSIVE NormComps(_, _, _)
NormComps(comps, acc, initial) ==
    IF comps = <<>> THEN acc
    ELSE LET comp == Head(comps)
             rest == Tail(comps)
         IN  IF comp = <<>> \/ comp = Dot THEN NormComps(rest, acc, initial)
             ELSE IF \/ comp # DotDot
                     \/ (initial = 0 /\ acc = <<>>)
                     \/ (acc # <<>> /\ acc[Len(acc)] = DotDot)
                  THEN NormComps(rest, Append(acc, comp), initial)
             ELSE IF acc # <<>>
                  THEN NormComps(rest, SubSeq(acc, 1, Len(acc) - 1), initial)
             ELSE NormComps(rest, acc, initial)

NormPath(p) ==
    IF p = <<>> THEN Dot
    ELSE LET initial == IF ~IsAbs(p) THEN 0
                        ELSE IF StartsWith(p, <<"/", "/">>)
                                /\ ~StartsWith(p, <<"/", "/", "/">>) THEN 2
                        ELSE 1
             joined  == Join(Slash, NormComps(SplitOn(p, {"/"}), <<>>, initial))
             path    == (IF initial = 2 THEN <<"/", "/">>
                         ELSE IF initial = 1 THEN Slash ELSE <<>>) \o joined
         IN  IF path = <<>> THEN Dot ELSE path

(* The working directory of the hosting process; the engine never changes  *)
(* it (no os.chdir anywhere), it only copies it at construction.           *)
ProcessCwd == Slash

AbsPath(p) == NormPath(IF IsAbs(p) THEN p ELSE PathJoin(ProcessCwd, p))

BaseName(p) ==
    LET parts == SplitOn(p, {"/"}) IN parts[Len(parts)]

(* os.path.expanduser("~"): the home directory of the user                 *)
HomeDirectory == <<"/","h">>

----------------------------------------------------------------------------
(* The file system: a function from nodes (sequences of names from the     *)
(* root) to [kind, data].  The root always exists.                         *)

Root == <<>>
DirEntry == [kind |-> "dir", data |-> <<>>]
FileEntry(content) == [kind |-> "file", data |-> content]

Parent(node) == IF node = <<>> THEN <<>> ELSE SubSeq(node, 1, Len(node) - 1)

IsUnder(node, top) ==
    Len(top) <= Len(node) /\ SubSeq(node, 1, Len(top)) = top

Children(f, node) == {n \in DOMAIN f : n # <<>> /\ Parent(n) = node}

Without(f, nodes) == [n \in (DOMAIN f) \ nodes |-> f[n]]

With(f, node, entry) ==
    [n \in (DOMAIN f) \cup {node} |-> IF n = node THEN entry ELSE f[n]]

PathComps(p) == SelectSeq(SplitOn(p, {"/"}), NonEmptyText)

(* Kernel path resolution of an absolute path: every component but the     *)
(* last is looked up in an existing directory; err is "" on success and    *)
(* node is then the node named (which may not exist).                       *)
RECURSIVE WalkFrom(_, _, _)
WalkFrom(f, node, comps) ==
    IF comps = <<>> THEN [err |-> "", node |-> node]
    ELSE IF node \notin DOMAIN f THEN [err |-> "ENOENT", node |-> node]
    ELSE IF f[node].kind # "dir" THEN [err |-> "ENOTDIR", node |-> node]
    ELSE LET c == Head(comps)
             next == IF c = Dot THEN node
                     ELSE IF c = DotDot THEN Parent(node)
                     ELSE Append(node, c)
         IN  WalkFrom(f, next, Tail(comps))

Walk(f, p) ==
    WalkFrom(f, IF IsAbs(p) THEN Root ELSE PathComps(ProcessCwd), PathComps(p))

Exists(f, p) ==
    LET At(w) == w.err = "" /\ w.node \in DOMAIN f
    IN  At(Walk(f, p))

IsDir(f, p) ==
    LET At(w) == w.err = "" /\ w.node \in DOMAIN f /\ f[w.node].kind = "dir"
    IN  At(Walk(f, p))

(* str(OSError): "[Errno N] text: 'path'"                                   *)
OsError(e, p) ==
    LET ErrnoText ==
            CASE e = "ENOENT"    -> <<"[","E","r","r","n","o"," ","2","]"," ","N","o"," ","s","u","c","h"," ","f","i","l","e"," ","o","r"," ","d","i","r","e","c","t","o","r","y">>
              [] e = "EEXIST"    -> <<"[","E","r","r","n","o"," ","1","7","]"," ","F","i","l","e"," ","e","x","i","s","t","s">>
              [] e = "ENOTDIR"   -> <<"[","E","r","r","n","o"," ","2","0","]"," ","N","o","t"," ","a"," ","d","i","r","e","c","t","o","r","y">>
              [] e = "EISDIR"    -> <<"[","E","r","r","n","o"," ","2","1","]"," ","I","s"," ","a"," ","d","i","r","e","c","t","o","r","y">>
              [] e = "EINVAL"    -> <<"[","E","r","r","n","o"," ","2","2","]"," ","I","n","v","a","l","i","d"," ","a","r","g","u","m","e","n","t">>
              [] e = "EBUSY"     -> <<"[","E","r","r","n","o"," ","1","6","]"," ","D","e","v","i","c","e"," ","o","r"," ","r","e","s","o","u","r","c","e"," ","b","u","s","y">>
              [] e = "ENOTEMPTY" -> <<"[","E","r","r","n","o"," ","3","9","]"," ","D","i","r","e","c","t","o","r","y"," ","n","o","t"," ","e","m","p","t","y">>
    IN  ErrnoText \o <<":"," ","'">> \o p \o <<"'">>

Ok(f) == [err |-> "", fs |-> f]
Fail(e, f) == [err |-> e, fs |-> f]

(* os.rmdir                                                                *)
OsRmdir(f, p) ==
    LET c == PathComps(p)
        last_comp == IF c = <<>> THEN <<>> ELSE c[Len(c)]
        At(w) ==
            IF w.err # "" THEN Fail(w.err, f)
            ELSE IF w.node \notin DOMAIN f THEN Fail("ENOENT", f)
            ELSE IF f[w.node].kind # "dir" THEN Fail("ENOTDIR", f)
            ELSE IF last_comp = Dot THEN Fail("EINVAL", f)
            ELSE IF last_comp = DotDot THEN Fail("ENOTEMPTY", f)
            ELSE IF w.node = Root THEN Fail("EBUSY", f)
            ELSE IF Children(f, w.node) # {} THEN Fail("ENOTEMPTY", f)
            ELSE Ok(Without(f, {w.node}))
    IN  At(Walk(f, p))

(* os.remove                                                               *)
OsRemove(f, p) ==
    LET At(w) ==
            IF w.err # "" THEN Fail(w.err, f)
            ELSE IF w.node \notin DOMAIN f THEN Fail("ENOENT", f)
            ELSE IF f[w.node].kind = "dir" THEN Fail("EISDIR", f)
            ELSE Ok(Without(f, {w.node}))
    IN  At(Walk(f, p))

(* shutil.rmtree of an existing directory: everything beneath it is        *)
(* removed, then os.rmdir is applied to the path itself.                   *)
ShutilRmtree(f, p) ==
    LET At(w) ==
            IF w.err # "" THEN Fail(w.err, f)
            ELSE IF w.node \notin DOMAIN f THEN Fail("ENOENT", f)
            ELSE IF f[w.node].kind # "dir" THEN Fail("ENOTDIR", f)
            ELSE OsRmdir(Without(f, {n \in DOMAIN f : IsUnder(n, w.node) /\ n # w.node}),
                         p)
    IN  At(Walk(f, p))

(* os.makedirs(p, exist_ok=True): every missing directory on the way is    *)
(* created; a regular file on the way, or at the end, is an error.         *)
RECURSIVE MakeDirsFrom(_, _, _)
MakeDirsFrom(f, node, comps) ==
    IF comps = <<>> THEN Ok(f)
    ELSE LET c == Head(comps)
             next == IF c = Dot THEN node
                     ELSE IF c = DotDot THEN Parent(node)
                     ELSE Append(node, c)
         IN  IF next \notin DOMAIN f
             THEN MakeDirsFrom(With(f, next, DirEntry), next, Tail(comps))
             ELSE IF f[next].kind = "dir"
             THEN MakeDirsFrom(f, next, Tail(comps))
             ELSE IF Tail(comps) = <<>> THEN Fail("EEXIST", f)
             ELSE Fail("ENOTDIR", f)

(* Variant: os.makedirs without exist_ok                                   *)
OsMakedirsStrict(f, p) ==
    LET At(w) == IF w.err = "" /\ w.node \in DOMAIN f THEN Fail("EEXIST", f)
                 ELSE MakeDirsFrom(f, Root, PathComps(p))
    IN  At(Walk(f, p))

OsMakedirs(f, p) == MakeDirsFrom(f, Root, PathComps(p))

(* Variant: the file is opened for writing, which empties an existing file *)
PathTouchTruncates(f, p) ==
    LET At(w) ==
            IF w.err # "" THEN Fail(w.err, f)
            ELSE IF w.node \in DOMAIN f /\ f[w.node].kind = "dir" THEN Ok(f)
            ELSE Ok(With(f, w.node, FileEntry(<<>>)))
    IN  At(Walk(f, p))

(* pathlib.Path.touch(): an existing entry only gets a new modification    *)
(* time; otherwise an empty file is created in an existing directory.      *)
PathTouch(f, p) ==
    LET At(w) ==
            IF w.err # "" THEN Fail(w.err, f)
            ELSE IF w.node \in DOMAIN f THEN Ok(f)
            ELSE Ok(With(f, w.node, FileEntry(<<>>)))
    IN  At(Walk(f, p))

(* Results of the shutil operations: ok, the exception text, the new fs    *)
Done(f) == [ok |-> TRUE, msg |-> <<>>, fs |-> f]
Raise(m, f) == [ok |-> FALSE, msg |-> m, fs |-> f]

RECURSIVE RStripSlash(_)
RStripSlash(p) ==
    IF p # <<>> /\ p[Len(p)] = "/" THEN RStripSlash(SubSeq(p, 1, Len(p) - 1))
    ELSE p

(* The tree at src placed at dst (dst not inside src); with remove the     *)
(* tree at src is taken away (rename), without it is kept (copy).          *)
Replant(f, src, dst, remove) ==
    LET Suffix(node, top) == SubSeq(node, Len(top) + 1, Len(node))
        moved   == {n \in DOMAIN f : IsUnder(n, src)}
        targets == {dst \o Suffix(n, src) : n \in moved}
        kept    == (DOMAIN f) \ ((IF remove THEN moved ELSE {}) \cup
                                 {n \in DOMAIN f : IsUnder(n, dst)})
    IN  [n \in kept \cup targets |->
            IF n \in targets THEN f[src \o Suffix(n, dst)] ELSE f[n]]

(* shutil.copy2(src, dst)                                                  *)
ShutilCopy2(f, src, dst) ==
    LET Copy(real, ws, wd) ==
            IF ws.err # "" THEN Raise(OsError(ws.err, src), f)
            ELSE IF ws.node \notin DOMAIN f THEN Raise(OsError("ENOENT", src), f)
            ELSE IF wd.err = "" /\ wd.node = ws.node /\ f[ws.node].kind = "file"
                 THEN Raise(<<"'">> \o src \o <<"'"," ","a","n","d"," ","'">> \o real
                            \o <<"'"," ","a","r","e"," ","t","h","e"," ","s","a","m","e"," ","f","i","l","e">>, f)
            ELSE IF f[ws.node].kind = "dir" THEN Raise(OsError("EISDIR", src), f)
            ELSE IF wd.err # "" THEN Raise(OsError(wd.err, real), f)
            ELSE IF wd.node \in DOMAIN f /\ f[wd.node].kind = "dir"
                 THEN Raise(OsError("EISDIR", real), f)
            ELSE IF Parent(wd.node) \notin DOMAIN f
                 THEN Raise(OsError("ENOENT", real), f)
            ELSE Done(With(f, wd.node, f[ws.node]))
        To(real) == Copy(real, Walk(f, src), Walk(f, real))
    IN  To(IF IsDir(f, dst) THEN PathJoin(dst, BaseName(src)) ELSE dst)

(* Variant: the tree at src is taken away once it is copied                *)
ShutilCopytreeMoves(f, src, dst) ==
    LET Plant(ws, mk, target) ==
            IF IsUnder(target, ws.node)
            THEN Raise(OsError("ENOENT", src), mk.fs)
            ELSE Done(Replant(mk.fs, ws.node, target, TRUE))
        Make(ws, mk) ==
            IF mk.err # "" THEN Raise(OsError(mk.err, dst), f)
            ELSE Plant(ws, mk, Walk(mk.fs, dst).node)
        Copy(ws, wd) ==
            IF ws.err # "" THEN Raise(OsError(ws.err, src), f)
            ELSE IF ws.node \notin DOMAIN f THEN Raise(OsError("ENOENT", src), f)
            ELSE IF f[ws.node].kind # "dir" THEN Raise(OsError("ENOTDIR", src), f)
            ELSE IF wd.err = "" /\ wd.node \in DOMAIN f
                 THEN Raise(OsError("EEXIST", dst), f)
            ELSE Make(ws, OsMakedirs(f, dst))
    IN  Copy(Walk(f, src), Walk(f, dst))

(* shutil.copytree(src, dst) of an existing directory src: dst must not    *)
(* exist, missing parents of dst are created.                              *)
ShutilCopytree(f, src, dst) ==
    LET Plant(ws, mk, target) ==
            IF IsUnder(target, ws.node)
            THEN Raise(OsError("ENOENT", src), mk.fs)
            ELSE Done(Replant(mk.fs, ws.node, target, FALSE))
        Make(ws, mk) ==
            IF mk.err # "" THEN Raise(OsError(mk.err, dst), f)
            ELSE Plant(ws, mk, Walk(mk.fs, dst).node)
        Copy(ws, wd) ==
            IF ws.err # "" THEN Raise(OsError(ws.err, src), f)
            ELSE IF ws.node \notin DOMAIN f THEN Raise(OsError("ENOENT", src), f)
            ELSE IF f[ws.node].kind # "dir" THEN Raise(OsError("ENOTDIR", src), f)
            ELSE IF wd.err = "" /\ wd.node \in DOMAIN f
                 THEN Raise(OsError("EEXIST", dst), f)
            ELSE Make(ws, OsMakedirs(f, dst))
    IN  Copy(Walk(f, src), Walk(f, dst))

(* shutil.move(src, dst)                                                   *)
ShutilMove(f, src, dst) ==
    LET Plant(ws, real, mk) ==
            IF mk.err # "" THEN Raise(OsError(mk.err, real), f)
            ELSE Done(Replant(mk.fs, ws.node, Walk(mk.fs, real).node, TRUE))
        Move(ws, into, same, real, wd) ==
            IF same THEN Done(f)
            ELSE IF into /\ wd.err = "" /\ wd.node \in DOMAIN f
                 THEN Raise(<<"D","e","s","t","i","n","a","t","i","o","n"," ","p","a","t","h"," ","'">> \o real \o <<"'"," ","a","l","r","e","a","d","y"," ","e","x","i","s","t","s">>, f)
            ELSE IF ws.err # "" THEN Raise(OsError(ws.err, src), f)
            ELSE IF ws.node \notin DOMAIN f THEN Raise(OsError("ENOENT", src), f)
            ELSE IF f[ws.node].kind = "file"
                 THEN IF wd.err # "" THEN Raise(OsError(wd.err, real), f)
                      ELSE IF wd.node = ws.node THEN Done(f)
                      ELSE IF Parent(wd.node) \notin DOMAIN f
                           THEN Raise(OsError("ENOENT", real), f)
                      ELSE Done(Replant(f, ws.node, wd.node, TRUE))
            ELSE \* src is a directory
                 IF wd.err = "ENOTDIR" THEN Raise(OsError("ENOTDIR", real), f)
                 ELSE IF wd.err = "" /\ IsUnder(wd.node, ws.node)
                      THEN Raise(<<"C","a","n","n","o","t"," ","m","o","v","e"," ","a"," ","d","i","r","e","c","t","o","r","y"," ","'">> \o src
                                 \o <<"'"," ","i","n","t","o"," ","i","t","s","e","l","f"," ","'">> \o dst \o <<"'",".">>, f)
                 ELSE IF wd.err = "" /\ wd.node \in DOMAIN f
                      THEN Raise(OsError("EEXIST", real), f)
                 ELSE Plant(ws, real, OsMakedirs(f, real))
        Onto(ws, into, same, real) == Move(ws, into, same, real, Walk(f, real))
        Name(ws, into, same) ==
            Onto(ws, into, same,
                 IF into /\ ~same
                 THEN PathJoin(dst, BaseName(RStripSlash(src))) ELSE dst)
        From(ws, wdst, into) ==
            Name(ws, into, into /\ ws.err = "" /\ ws.node = wdst.node)
    IN  From(Walk(f, src), Walk(f, dst), IsDir(f, dst))

----------------------------------------------------------------------------
(* Numbers as text: f"{n}", f"{n:3d}", f"{n:8d}", "%H:%M:%S"               *)

RECURSIVE Decimal(_)
Decimal(n) ==
    LET DigitChars == <<"0","1","2","3","4","5","6","7","8","9">>
    IN  IF n < 10 THEN <<DigitChars[n + 1]>>
        ELSE Decimal(n \div 10) \o <<DigitChars[(n % 10) + 1]>>

RECURSIVE PadLeft(_, _, _)
PadLeft(t, width, c) ==
    IF Len(t) >= width THEN t ELSE PadLeft(<<c>> \o t, width, c)

(* Lexicographic order of text by character code, as sorted() on str       *)
RECURSIVE TextLess(_, _)
TextLess(a, b) ==
    LET CharOrder == <<"\t","\n"," ","!","#","$","%","&","'","(",")","*","+",",","-",".","/","0","1","2","3","4","5","6","7","8","9",":",";","<","=",">","?","@","A","B","C","D","E","F","G","H","I","J","K","L","M","N","O","P","Q","R","S","T","U","V","W","X","Y","Z","[","]","^","_","a","b","c","d","e","f","g","h","i","j","k","l","m","n","o","p","q","r","s","t","u","v","w","x","y","z","{","|","}","~">>
        Ord(c) == CHOOSE i \in 1..Len(CharOrder) : CharOrder[i] = c
    IN  IF b = <<>> THEN FALSE
        ELSE IF a = <<>> THEN TRUE
        ELSE IF Head(a) = Head(b) THEN TextLess(Tail(a), Tail(b))
        ELSE Ord(Head(a)) < Ord(Head(b))

RECURSIVE Sorted(_)
Sorted(S) ==
    IF S = {} THEN <<>>
    ELSE LET m == CHOOSE x \in S : \A y \in S \ {x} : TextLess(x, y)
         IN  <<m>> \o Sorted(S \ {m})

----------------------------------------------------------------------------
(* TerminalCore                                                            *)

(* self.supported_commands: name and description, in insertion order       *)
SupportedCommands ==
    <<
        <<<<"l","s">>, <<"L","i","s","t"," ","d","i","r","e","c","t","o","r","y"," ","c","o","n","t","e","n","t","s">>>>
      , <<<<"d","i","r">>, <<"L","i","s","t"," ","d","i","r","e","c","t","o","r","y"," ","c","o","n","t","e","n","t","s"," ","(","W","i","n","d","o","w","s",")">>>>
      , <<<<"c","d">>, <<"C","h","a","n","g","e"," ","d","i","r","e","c","t","o","r","y">>>>
      , <<<<"p","w","d">>, <<"P","r","i","n","t"," ","w","o","r","k","i","n","g"," ","d","i","r","e","c","t","o","r","y">>>>
      , <<<<"m","k","d","i","r">>, <<"C","r","e","a","t","e"," ","d","i","r","e","c","t","o","r","y">>>>
      , <<<<"r","m","d","i","r">>, <<"R","e","m","o","v","e"," ","d","i","r","e","c","t","o","r","y">>>>
      , <<<<"r","m">>, <<"R","e","m","o","v","e"," ","f","i","l","e","s"," ","o","r"," ","d","i","r","e","c","t","o","r","i","e","s">>>>
      , <<<<"c","p">>, <<"C","o","p","y"," ","f","i","l","e","s"," ","o","r"," ","d","i","r","e","c","t","o","r","i","e","s">>>>
      , <<<<"m","v">>, <<"M","o","v","e","/","r","e","n","a","m","e"," ","f","i","l","e","s"," ","o","r"," ","d","i","r","e","c","t","o","r","i","e","s">>>>
      , <<<<"c","a","t">>, <<"D","i","s","p","l","a","y"," ","f","i","l","e"," ","c","o","n","t","e","n","t","s">>>>
      , <<<<"h","e","a","d">>, <<"D","i","s","p","l","a","y"," ","f","i","r","s","t"," ","l","i","n","e","s"," ","o","f"," ","f","i","l","e">>>>
      , <<<<"t","a","i","l">>, <<"D","i","s","p","l","a","y"," ","l","a","s","t"," ","l","i","n","e","s"," ","o","f"," ","f","i","l","e">>>>
      , <<<<"t","o","u","c","h">>, <<"C","r","e","a","t","e"," ","e","m","p","t","y"," ","f","i","l","e"," ","o","r"," ","u","p","d","a","t","e"," ","t","i","m","e","s","t","a","m","p">>>>
      , <<<<"w","h","o","a","m","i">>, <<"D","i","s","p","l","a","y"," ","c","u","r","r","e","n","t"," ","u","s","e","r">>>>
      , <<<<"h","o","s","t","n","a","m","e">>, <<"D","i","s","p","l","a","y"," ","s","y","s","t","e","m"," ","h","o","s","t","n","a","m","e">>>>
      , <<<<"d","a","t","e">>, <<"D","i","s","p","l","a","y"," ","c","u","r","r","e","n","t"," ","d","a","t","e"," ","a","n","d"," ","t","i","m","e">>>>
      , <<<<"e","c","h","o">>, <<"D","i","s","p","l","a","y"," ","t","e","x","t"," ","o","r"," ","v","a","r","i","a","b","l","e","s">>>>
      , <<<<"e","n","v">>, <<"D","i","s","p","l","a","y"," ","e","n","v","i","r","o","n","m","e","n","t"," ","v","a","r","i","a","b","l","e","s">>>>
      , <<<<"p","s">>, <<"D","i","s","p","l","a","y"," ","p","r","o","c","e","s","s"," ","i","n","f","o","r","m","a","t","i","o","n">>>>
      , <<<<"k","i","l","l">>, <<"T","e","r","m","i","n","a","t","e"," ","p","r","o","c","e","s","s","e","s">>>>
      , <<<<"j","o","b","s">>, <<"D","i","s","p","l","a","y"," ","b","a","c","k","g","r","o","u","n","d"," ","j","o","b","s">>>>
      , <<<<"b","g">>, <<"R","e","s","u","m","e"," ","j","o","b"," ","i","n"," ","b","a","c","k","g","r","o","u","n","d">>>>
      , <<<<"f","g">>, <<"R","e","s","u","m","e"," ","j","o","b"," ","i","n"," ","f","o","r","e","g","r","o","u","n","d">>>>
      , <<<<"c","p","u">>, <<"D","i","s","p","l","a","y"," ","C","P","U"," ","i","n","f","o","r","m","a","t","i","o","n">>>>
      , <<<<"m","e","m","o","r","y">>, <<"D","i","s","p","l","a","y"," ","m","e","m","o","r","y"," ","u","s","a","g","e">>>>
      , <<<<"d","i","s","k">>, <<"D","i","s","p","l","a","y"," ","d","i","s","k"," ","u","s","a","g","e">>>>
      , <<<<"t","o","p">>, <<"D","i","s","p","l","a","y"," ","s","y","s","t","e","m"," ","p","r","o","c","e","s","s","e","s"," ","(","t","o","p","-","l","i","k","e",")">>>>
      , <<<<"c","l","e","a","r">>, <<"C","l","e","a","r"," ","t","e","r","m","i","n","a","l"," ","s","c","r","e","e","n">>>>
      , <<<<"h","i","s","t","o","r","y">>, <<"S","h","o","w"," ","c","o","m","m","a","n","d"," ","h","i","s","t","o","r","y">>>>
      , <<<<"h","e","l","p">>, <<"D","i","s","p","l","a","y"," ","h","e","l","p"," ","i","n","f","o","r","m","a","t","i","o","n">>>>
      , <<<<"e","x","i","t">>, <<"E","x","i","t"," ","t","e","r","m","i","n","a","l">>>>
      , <<<<"q","u","i","t">>, <<"E","x","i","t"," ","t","e","r","m","i","n","a","l">>>>
      , <<<<"g","r","e","p">>, <<"S","e","a","r","c","h"," ","t","e","x","t"," ","i","n"," ","f","i","l","e","s">>>>
      , <<<<"f","i","n","d">>, <<"F","i","n","d"," ","f","i","l","e","s"," ","a","n","d"," ","d","i","r","e","c","t","o","r","i","e","s">>>>
      , <<<<"s","o","r","t">>, <<"S","o","r","t"," ","l","i","n","e","s"," ","i","n"," ","f","i","l","e","s">>>>
      , <<<<"u","n","i","q">>, <<"R","e","m","o","v","e"," ","d","u","p","l","i","c","a","t","e"," ","l","i","n","e","s">>>>
      , <<<<"w","c">>, <<"C","o","u","n","t"," ","l","i","n","e","s",","," ","w","o","r","d","s",","," ","c","h","a","r","a","c","t","e","r","s">>>>
      , <<<<"t","a","r">>, <<"A","r","c","h","i","v","e"," ","f","i","l","e","s">>>>
      , <<<<"z","i","p">>, <<"C","r","e","a","t","e"," ","z","i","p"," ","a","r","c","h","i","v","e","s">>>>
      , <<<<"u","n","z","i","p">>, <<"E","x","t","r","a","c","t"," ","z","i","p"," ","a","r","c","h","i","v","e","s">>>>
      , <<<<"p","i","n","g">>, <<"T","e","s","t"," ","n","e","t","w","o","r","k"," ","c","o","n","n","e","c","t","i","v","i","t","y">>>>
      , <<<<"c","u","r","l">>, <<"T","r","a","n","s","f","e","r"," ","d","a","t","a"," ","f","r","o","m"," ","s","e","r","v","e","r","s">>>>
      , <<<<"w","g","e","t">>, <<"D","o","w","n","l","o","a","d"," ","f","i","l","e","s"," ","f","r","o","m"," ","w","e","b">>>>
    >>

RegistryNames == {SupportedCommands[i][1] : i \in 1..Len(SupportedCommands)}

Newline == <<"\n">>

(* What a handler hands back to execute_command: the returned string or    *)
(* the exception that escaped it, and the file system and directory it     *)
(* leaves behind.                                                          *)
Returns(out, f, cwd) ==
    [raised |-> FALSE, out |-> out, msg |-> <<>>, fs |-> f, cwd |-> cwd]
Escapes(msg, f, cwd) ==
    [raised |-> TRUE, out |-> <<>>, msg |-> msg, fs |-> f, cwd |-> cwd]

HandleHelp(args, f, cwd) ==
    LET RECURSIVE HelpLines(_)
        HelpLines(reg) ==
            IF reg = <<>> THEN <<>>
            ELSE reg[1][1] \o PadLeft(<<>>, 15 - Len(reg[1][1]), " ") \o <<" ","-"," ">>
                 \o reg[1][2] \o Newline \o HelpLines(Tail(reg))
        Description(name) ==
            SupportedCommands[CHOOSE i \in 1..Len(SupportedCommands) :
                                  SupportedCommands[i][1] = name][2]
    IN
    IF args = <<>>
    THEN Returns(<<"A","v","a","i","l","a","b","l","e"," ","c","o","m","m","a","n","d","s",":","\n">> \o PadLeft(<<>>, 50, "=") \o Newline
                 \o HelpLines(SupportedCommands)
                 \o <<"\n","F","o","r"," ","m","o","r","e"," ","i","n","f","o","r","m","a","t","i","o","n"," ","o","n"," ","a"," ","s","p","e","c","i","f","i","c"," ","c","o","m","m","a","n","d",","," ","t","y","p","e",":"," ","h","e","l","p"," ","<","c","o","m","m","a","n","d",">">>,
                 f, cwd)
    ELSE LET cmd == Lower(args[1])
         IN  IF cmd \in RegistryNames
             THEN Returns(cmd \o <<":"," ">> \o Description(cmd), f, cwd)
             ELSE Returns(<<"N","o"," ","h","e","l","p"," ","a","v","a","i","l","a","b","l","e"," ","f","o","r"," ","'">> \o cmd
                          \o <<"'","."," ","T","y","p","e"," ","'","h","e","l","p","'"," ","f","o","r"," ","a","v","a","i","l","a","b","l","e"," ","c","o","m","m","a","n","d","s",".">>, f, cwd)

HandleClear(f, cwd) == Returns(<<>>, f, cwd)

HistoryWindow == 20

(* Variant: the slice [:20]                                                *)
FirstEntries(h, n) == IF Len(h) <= n THEN h ELSE SubSeq(h, 1, n)

LastEntries(h, n) == IF Len(h) <= n THEN h ELSE SubSeq(h, Len(h) - n + 1, Len(h))

RECURSIVE HistoryLines(_, _)
HistoryLines(entries, i) ==
    LET \* strftime('%H:%M:%S') of a timestamp counted in seconds
        ClockText(t) ==
            PadLeft(Decimal((t \div 3600) % 24), 2, "0") \o <<":">>
            \o PadLeft(Decimal((t \div 60) % 60), 2, "0") \o <<":">>
            \o PadLeft(Decimal(t % 60), 2, "0")
    IN  IF entries = <<>> THEN <<>>
        ELSE PadLeft(Decimal(i), 3, " ") \o <<" "," ">> \o ClockText(entries[1].timestamp)
             \o <<" "," ">> \o entries[1].command \o Newline
             \o HistoryLines(Tail(entries), i + 1)

HandleHistory(args, hist, f, cwd) ==
    IF hist = <<>> THEN Returns(<<"N","o"," ","c","o","m","m","a","n","d"," ","h","i","s","t","o","r","y"," ","a","v","a","i","l","a","b","l","e",".">>, f, cwd)
    ELSE Returns(<<"C","o","m","m","a","n","d"," ","H","i","s","t","o","r","y",":","\n">> \o PadLeft(<<>>, 30, "=") \o Newline
                 \o HistoryLines(LastEntries(hist, HistoryWindow), 1), f, cwd)

(* Variant: the directory is assigned without the isdir test               *)
HandleCdUnchecked(args, f, cwd) ==
    IF args = <<>> THEN Returns(<<"c","d",":"," ","m","i","s","s","i","n","g"," ","a","r","g","u","m","e","n","t">>, f, cwd)
    ELSE IF args[1] = <<"-">> THEN Returns(<<"P","r","e","v","i","o","u","s"," ","d","i","r","e","c","t","o","r","y"," ","n","o","t"," ","t","r","a","c","k","e","d">>, f, cwd)
    ELSE LET target_dir == IF args[1] = <<"~">> THEN HomeDirectory ELSE args[1]
         IN  Returns(<<>>, f, AbsPath(PathJoin(cwd, target_dir)))

(* Variant: the joined path is stored as it is, without os.path.abspath    *)
HandleCdUnnormalised(args, f, cwd) ==
    IF args = <<>> THEN Returns(<<"c","d",":"," ","m","i","s","s","i","n","g"," ","a","r","g","u","m","e","n","t">>, f, cwd)
    ELSE IF args[1] = <<"-">> THEN Returns(<<"P","r","e","v","i","o","u","s"," ","d","i","r","e","c","t","o","r","y"," ","n","o","t"," ","t","r","a","c","k","e","d">>, f, cwd)
    ELSE LET target_dir == IF args[1] = <<"~">> THEN HomeDirectory ELSE args[1]
             new_dir    == PathJoin(cwd, target_dir)
         IN  IF IsDir(f, AbsPath(new_dir))
             THEN Returns(<<>>, f, new_dir)
             ELSE Returns(<<"c","d",":"," ">> \o target_dir \o <<":"," ","N","o"," ","s","u","c","h"," ","f","i","l","e"," ","o","r"," ","d","i","r","e","c","t","o","r","y">>,
                          f, cwd)

HandleCd(args, f, cwd) ==
    IF args = <<>> THEN Returns(<<"c","d",":"," ","m","i","s","s","i","n","g"," ","a","r","g","u","m","e","n","t">>, f, cwd)
    ELSE IF args[1] = <<"-">> THEN Returns(<<"P","r","e","v","i","o","u","s"," ","d","i","r","e","c","t","o","r","y"," ","n","o","t"," ","t","r","a","c","k","e","d">>, f, cwd)
    ELSE LET target_dir == IF args[1] = <<"~">> THEN HomeDirectory ELSE args[1]
             new_dir    == AbsPath(PathJoin(cwd, target_dir))
         IN  IF IsDir(f, new_dir)
             THEN Returns(<<>>, f, new_dir)
             ELSE Returns(<<"c","d",":"," ">> \o target_dir \o <<":"," ","N","o"," ","s","u","c","h"," ","f","i","l","e"," ","o","r"," ","d","i","r","e","c","t","o","r","y">>,
                          f, cwd)

HandlePwd(f, cwd) == Returns(cwd, f, cwd)

RECURSIVE MkdirLoop(_, _, _)
MkdirLoop(names, f, cwd) ==
    IF names = <<>> THEN Returns(<<>>, f, cwd)
    ELSE LET p == PathJoin(cwd, Head(names))
             Step(r) ==
                 IF r.err # ""
                 THEN Returns(<<"m","k","d","i","r",":"," ","c","a","n","n","o","t"," ","c","r","e","a","t","e"," ","d","i","r","e","c","t","o","r","y"," ","'">> \o Head(names)
                              \o <<"'",":"," ">> \o OsError(r.err, p), r.fs, cwd)
                 ELSE MkdirLoop(Tail(names), r.fs, cwd)
         IN  Step(OsMakedirs(f, p))

(* Variant: a failure undoes the directories made for the earlier names    *)
HandleMkdirAllOrNothing(args, f, cwd) ==
    LET Undo(r) == IF r.out # <<>> THEN Returns(r.out, f, cwd) ELSE r
    IN  IF args = <<>> THEN Returns(<<"m","k","d","i","r",":"," ","m","i","s","s","i","n","g"," ","o","p","e","r","a","n","d">>, f, cwd)
        ELSE Undo(MkdirLoop(args, f, cwd))

HandleMkdir(args, f, cwd) ==
    IF args = <<>> THEN Returns(<<"m","k","d","i","r",":"," ","m","i","s","s","i","n","g"," ","o","p","e","r","a","n","d">>, f, cwd)
    ELSE MkdirLoop(args, f, cwd)

RECURSIVE RmdirLoop(_, _, _)
RmdirLoop(names, f, cwd) ==
    IF names = <<>> THEN Returns(<<>>, f, cwd)
    ELSE LET target == PathJoin(cwd, Head(names))
             Step(r) ==
                 IF r.err # ""
                 THEN Returns(<<"r","m","d","i","r",":"," ","f","a","i","l","e","d"," ","t","o"," ","r","e","m","o","v","e"," ","'">> \o Head(names)
                              \o <<"'",":"," ">> \o OsError(r.err, target), r.fs, cwd)
                 ELSE RmdirLoop(Tail(names), r.fs, cwd)
         IN  Step(OsRmdir(f, target))

HandleRmdir(args, f, cwd) ==
    IF args = <<>> THEN Returns(<<"r","m","d","i","r",":"," ","m","i","s","s","i","n","g"," ","o","p","e","r","a","n","d">>, f, cwd)
    ELSE RmdirLoop(args, f, cwd)

FlagR == <<"-","r">>
NotFlagR(a) == a # FlagR

RECURSIVE RmLoop(_, _, _, _)
RmLoop(names, recursive, f, cwd) ==
    IF names = <<>> THEN Returns(<<>>, f, cwd)
    ELSE LET target == PathJoin(cwd, Head(names))
             Step(r) ==
                 IF r.err # ""
                 THEN Returns(<<"r","m",":"," ","c","a","n","n","o","t"," ","r","e","m","o","v","e"," ","'">> \o Head(names)
                              \o <<"'",":"," ">> \o OsError(r.err, target), r.fs, cwd)
                 ELSE RmLoop(Tail(names), recursive, r.fs, cwd)
         IN  Step(IF recursive /\ IsDir(f, target) THEN ShutilRmtree(f, target) ELSE OsRemove(f, target))

(* Variant: every call removes recursively                                 *)
HandleRmAlwaysRecursive(args, f, cwd) ==
    IF args = <<>> THEN Returns(<<"r","m",":"," ","m","i","s","s","i","n","g"," ","o","p","e","r","a","n","d">>, f, cwd)
    ELSE RmLoop(SelectSeq(args, NotFlagR), TRUE, f, cwd)

HandleRm(args, f, cwd) ==
    IF args = <<>> THEN Returns(<<"r","m",":"," ","m","i","s","s","i","n","g"," ","o","p","e","r","a","n","d">>, f, cwd)
    ELSE RmLoop(SelectSeq(args, NotFlagR), FlagR \in SeqToSet(args), f, cwd)

IndexErrorText == <<"l","i","s","t"," ","i","n","d","e","x"," ","o","u","t"," ","o","f"," ","r","a","n","g","e">>

RECURSIVE CpLoop(_, _, _, _, _)
CpLoop(sources, dest_path, recursive, f, cwd) ==
    IF sources = <<>> THEN Returns(<<>>, f, cwd)
    ELSE LET src_path == PathJoin(cwd, Head(sources))
             Step(r) ==
                 IF ~r.ok THEN Returns(<<"c","p",":"," ">> \o r.msg, r.fs, cwd)
                 ELSE CpLoop(Tail(sources), dest_path, recursive, r.fs, cwd)
         IN  Step(IF recursive /\ IsDir(f, src_path) THEN ShutilCopytree(f, src_path, dest_path) ELSE ShutilCopy2(f, src_path, dest_path))

HandleCp(args, f, cwd) ==
    IF Len(args) < 2 THEN Returns(<<"c","p",":"," ","m","i","s","s","i","n","g"," ","d","e","s","t","i","n","a","t","i","o","n"," ","f","i","l","e"," ","o","p","e","r","a","n","d">>, f, cwd)
    ELSE LET names == SelectSeq(args, NotFlagR)
         IN  IF names = <<>> THEN Escapes(IndexErrorText, f, cwd)
             ELSE CpLoop(SubSeq(names, 1, Len(names) - 1),
                         PathJoin(cwd, names[Len(names)]),
                         FlagR \in SeqToSet(args), f, cwd)

RECURSIVE MvLoop(_, _, _, _)
MvLoop(sources, dest_path, f, cwd) ==
    IF sources = <<>> THEN Returns(<<>>, f, cwd)
    ELSE LET Step(r) ==
                 IF ~r.ok THEN Returns(<<"m","v",":"," ">> \o r.msg, r.fs, cwd)
                 ELSE MvLoop(Tail(sources), dest_path, r.fs, cwd)
         IN  Step(ShutilMove(f, PathJoin(cwd, Head(sources)), dest_path))

HandleMv(args, f, cwd) ==
    IF Len(args) < 2 THEN Returns(<<"m","v",":"," ","m","i","s","s","i","n","g"," ","d","e","s","t","i","n","a","t","i","o","n"," ","f","i","l","e"," ","o","p","e","r","a","n","d">>, f, cwd)
    ELSE MvLoop(SubSeq(args, 1, Len(args) - 1),
                PathJoin(cwd, args[Len(args)]), f, cwd)

(* _get_permissions: bit (8 - i) of the mode selects letter i              *)
RECURSIVE Pow2(_)
Pow2(n) == IF n = 0 THEN 1 ELSE 2 * Pow2(n - 1)

(* Variant: the bits are taken from the lowest one up                      *)
GetPermissionsLowBitFirst(mode) ==
    LET permissions == <<"r","w","x","r","w","x","r","w","x","r","w","x">>
        BitSet(k) == (mode \div Pow2(k)) % 2 = 1
    IN  [j \in 1..9 |-> IF BitSet(j - 1) THEN permissions[j] ELSE "-"]

GetPermissions(mode) ==
    LET permissions == <<"r","w","x","r","w","x","r","w","x","r","w","x">>
        BitSet(k) == (mode \div Pow2(k)) % 2 = 1
    IN  [j \in 1..9 |-> IF BitSet(8 - (j - 1)) THEN permissions[j] ELSE "-"]

(* os.stat of an entry: directories 0o40755 and 4096 bytes, regular files  *)
(* 0o100644 and their length; modification times are not tracked and are  *)
(* shown as one fixed text.                                                *)
EntryName(node) == node[Len(node)]

LongLine(f, node) ==
    LET st_mode == IF f[node].kind = "dir" THEN 16877 ELSE 33188
        st_size == IF f[node].kind = "dir" THEN 4096 ELSE Len(f[node].data)
        mtime   == <<"J","a","n"," ","0","1"," ","0","0",":","0","0">>
    IN  GetPermissions(st_mode) \o <<" ">>
        \o PadLeft(Decimal(st_size), 8, " ") \o <<" ">>
        \o mtime \o <<" ">> \o EntryName(node)

RECURSIVE LongLines(_, _, _)
LongLines(f, dir, names) ==
    IF names = <<>> THEN <<>>
    ELSE <<LongLine(f, Append(dir, Head(names)))>> \o LongLines(f, dir, Tail(names))

(* Variant: only the short flag -a shows the hidden entries                *)
HandleLsShortFlagOnly(args, f, cwd) ==
    LET show_hidden == <<"-","a">> \in SeqToSet(args)
        long_format == SeqToSet(args) \cap {<<"-","l">>, <<"-","-","l","o","n","g">>} # {}
        Listed(node, sorted_items) ==
            IF long_format
            THEN Returns(Join(Newline, LongLines(f, node, sorted_items)), f, cwd)
            ELSE Returns(Join(Newline, sorted_items), f, cwd)
        ListDir(w) ==
            IF w.err # "" THEN Returns(<<"l","s",":"," ">> \o OsError(w.err, cwd), f, cwd)
            ELSE IF w.node \notin DOMAIN f
                 THEN Returns(<<"l","s",":"," ">> \o OsError("ENOENT", cwd), f, cwd)
            ELSE IF f[w.node].kind # "dir"
                 THEN Returns(<<"l","s",":"," ">> \o OsError("ENOTDIR", cwd), f, cwd)
            ELSE Listed(w.node,
                        Sorted({i \in {EntryName(n) : n \in Children(f, w.node)} :
                                   show_hidden \/ ~StartsWith(i, Dot)}))
    IN  ListDir(Walk(f, cwd))

HandleLs(args, f, cwd) ==
    LET show_hidden == SeqToSet(args) \cap {<<"-","a">>, <<"-","-","a","l","l">>} # {}
        long_format == SeqToSet(args) \cap {<<"-","l">>, <<"-","-","l","o","n","g">>} # {}
        Listed(node, sorted_items) ==
            IF long_format
            THEN Returns(Join(Newline, LongLines(f, node, sorted_items)), f, cwd)
            ELSE Returns(Join(Newline, sorted_items), f, cwd)
        ListDir(w) ==
            IF w.err # "" THEN Returns(<<"l","s",":"," ">> \o OsError(w.err, cwd), f, cwd)
            ELSE IF w.node \notin DOMAIN f
                 THEN Returns(<<"l","s",":"," ">> \o OsError("ENOENT", cwd), f, cwd)
            ELSE IF f[w.node].kind # "dir"
                 THEN Returns(<<"l","s",":"," ">> \o OsError("ENOTDIR", cwd), f, cwd)
            ELSE Listed(w.node,
                        Sorted({i \in {EntryName(n) : n \in Children(f, w.node)} :
                                   show_hidden \/ ~StartsWith(i, Dot)}))
    IN  ListDir(Walk(f, cwd))

(* open(path, 'r').read()                                                  *)
ReadFile(f, p) ==
    LET At(w) ==
            IF w.err # "" THEN [err |-> w.err, data |-> <<>>]
            ELSE IF w.node \notin DOMAIN f THEN [err |-> "ENOENT", data |-> <<>>]
            ELSE IF f[w.node].kind = "dir" THEN [err |-> "EISDIR", data |-> <<>>]
            ELSE [err |-> "", data |-> f[w.node].data]
    IN  At(Walk(f, p))

RECURSIVE CatLoop(_, _, _, _)
CatLoop(names, result, f, cwd) ==
    IF names = <<>> THEN Returns(Join(Newline, result), f, cwd)
    ELSE LET file_path == PathJoin(cwd, Head(names))
             Step(r) ==
                 IF r.err # ""
                 THEN Returns(<<"c","a","t",":"," ">> \o Head(names) \o <<":"," ">>
                              \o OsError(r.err, file_path), f, cwd)
                 ELSE CatLoop(Tail(names), Append(result, r.data), f, cwd)
         IN  Step(ReadFile(f, file_path))

HandleCat(args, f, cwd) ==
    IF args = <<>> THEN Returns(<<"c","a","t",":"," ","m","i","s","s","i","n","g"," ","f","i","l","e"," ","o","p","e","r","a","n","d">>, f, cwd)
    ELSE CatLoop(args, <<>>, f, cwd)

RECURSIVE TouchLoop(_, _, _)
TouchLoop(names, f, cwd) ==
    IF names = <<>> THEN Returns(<<>>, f, cwd)
    ELSE LET file_path == PathJoin(cwd, Head(names))
             Step(r) ==
                 IF r.err # ""
                 THEN Returns(<<"t","o","u","c","h",":"," ","c","a","n","n","o","t"," ","t","o","u","c","h"," ","'">> \o Head(names)
                              \o <<"'",":"," ">> \o OsError(r.err, file_path), r.fs, cwd)
                 ELSE TouchLoop(Tail(names), r.fs, cwd)
         IN  Step(PathTouch(f, file_path))

HandleTouch(args, f, cwd) ==
    IF args = <<>> THEN Returns(<<"t","o","u","c","h",":"," ","m","i","s","s","i","n","g"," ","f","i","l","e"," ","o","p","e","r","a","n","d">>, f, cwd)
    ELSE TouchLoop(args, f, cwd)

HandleEcho(args, f, cwd) == Returns(Join(<<" ">>, args), f, cwd)

(* os.environ of the hosting process, and platform.node()                  *)
ProcessEnviron ==
    <<  <<<<"H","O","M","E">>, HomeDirectory>>
      , <<<<"P","A","T","H">>, <<"/","b","i","n">>>>
    >>

EnvironNames == {ProcessEnviron[i][1] : i \in 1..Len(ProcessEnviron)}

EnvironGet(name, default) ==
    IF name \in EnvironNames
    THEN ProcessEnviron[CHOOSE i \in 1..Len(ProcessEnviron) :
                            ProcessEnviron[i][1] = name][2]
    ELSE default

HandleWhoami(f, cwd) == Returns(EnvironGet(<<"U","S","E","R","N","A","M","E">>, <<"U","n","k","n","o","w","n">>), f, cwd)

HandleHostname(f, cwd) == Returns(<<"h","o","s","t">>, f, cwd)

(* datetime.now().strftime(fmt) for a clock counted in seconds from        *)
(* Thu Jan 01 00:00:00 1970 (naive local time: %Z is empty); a directive   *)
(* outside the table is copied as it is.                                   *)
RECURSIVE Strftime(_, _)
Strftime(fmt, t) ==
    LET Directive(c) ==
            CASE c = "H" -> PadLeft(Decimal((t \div 3600) % 24), 2, "0")
              [] c = "M" -> PadLeft(Decimal((t \div 60) % 60), 2, "0")
              [] c = "S" -> PadLeft(Decimal(t % 60), 2, "0")
              [] c = "a" -> <<"T","h","u">>
              [] c = "b" -> <<"J","a","n">>
              [] c = "d" -> <<"0","1">>
              [] c = "Y" -> <<"1","9","7","0">>
              [] c = "Z" -> <<>>
              [] c = "%" -> <<"%">>
              [] OTHER   -> <<"%", c>>
    IN  IF fmt = <<>> THEN <<>>
        ELSE IF Head(fmt) = "%" /\ Len(fmt) >= 2
             THEN Directive(fmt[2]) \o Strftime(SubSeq(fmt, 3, Len(fmt)), t)
        ELSE <<Head(fmt)>> \o Strftime(Tail(fmt), t)

HandleDate(args, t, f, cwd) ==
    LET format_str == IF args = <<>> THEN <<"%","a"," ","%","b"," ","%","d"," ","%","H",":","%","M",":","%","S"," ","%","Z"," ","%","Y">>
                      ELSE Join(<<" ">>, args)
    IN  Returns(Strftime(format_str, t), f, cwd)

RECURSIVE EnvValues(_)
EnvValues(names) ==
    IF names = <<>> THEN <<>>
    ELSE <<EnvironGet(Head(names), Head(names) \o <<":"," ","u","n","d","e","f","i","n","e","d"," ","v","a","r","i","a","b","l","e">>)>>
         \o EnvValues(Tail(names))

RECURSIVE EnvLines(_)
EnvLines(names) ==
    IF names = <<>> THEN <<>>
    ELSE <<Head(names) \o <<"=">> \o EnvironGet(Head(names), <<>>)>>
         \o EnvLines(Tail(names))

HandleEnv(args, f, cwd) ==
    IF args # <<>> THEN Returns(Join(Newline, EnvValues(args)), f, cwd)
    ELSE Returns(Join(Newline, EnvLines(Sorted(EnvironNames))), f, cwd)

(* The metrics handlers import psutil and query it.  What psutil does is   *)
(* outside the program: it answers ("ok"), is not installed ("missing":    *)
(* ImportError, caught by the handler) or fails with another exception     *)
(* ("fails": not caught by the handler).                                   *)
MetricsOutcomes == {"ok", "missing", "fails"}
MetricsFailureText == <<"'","<","'"," ","n","o","t"," ","s","u","p","p","o","r","t","e","d"," ","b","e","t","w","e","e","n"," ","i","n","s","t","a","n","c","e","s"," ","o","f"," ","'","N","o","n","e","T","y","p","e","'"," ","a","n","d"," ","'","f","l","o","a","t","'">>

Metrics(report, outcome, f, cwd) ==
    CASE outcome = "ok"      -> Returns(report, f, cwd)
      [] outcome = "missing" ->
            Returns(<<"p","s","u","t","i","l"," ","n","o","t"," ","i","n","s","t","a","l","l","e","d","."," ","I","n","s","t","a","l","l"," ","w","i","t","h",":"," ","p","i","p"," ","i","n","s","t","a","l","l"," ","p","s","u","t","i","l">>, f, cwd)
      [] outcome = "fails"   -> Escapes(MetricsFailureText, f, cwd)

HandleCpu(outcome, f, cwd) ==
    Metrics(<<"C","P","U"," ","U","s","a","g","e",":"," ","0",".","0","%","\n","C","P","U"," ","C","o","r","e","s",":"," ","2">>, outcome, f, cwd)
HandleMemory(outcome, f, cwd) ==
    Metrics(<<"T","o","t","a","l"," ","M","e","m","o","r","y",":"," ","1",".","0","0"," ","G","B","\n","A","v","a","i","l","a","b","l","e"," ","M","e","m","o","r","y",":"," ","1",".","0","0"," ","G","B","\n","U","s","e","d"," ","M","e","m","o","r","y",":"," ","0",".","0","0"," ","G","B","\n","M","e","m","o","r","y"," ","U","s","a","g","e",":"," ","0",".","0","%">>,
            outcome, f, cwd)
HandleDisk(outcome, f, cwd) ==
    Metrics(<<"T","o","t","a","l"," ","D","i","s","k"," ","S","p","a","c","e",":"," ","1",".","0","0"," ","G","B","\n","U","s","e","d"," ","D","i","s","k"," ","S","p","a","c","e",":"," ","0",".","0","0"," ","G","B","\n","F","r","e","e"," ","D","i","s","k"," ","S","p","a","c","e",":"," ","1",".","0","0"," ","G","B","\n","D","i","s","k"," ","U","s","a","g","e",":"," ","0",".","0","%">>,
            outcome, f, cwd)
HandlePs(outcome, f, cwd) ==
    Metrics(<<"P","I","D"," "," "," "," "," "," ","N","A","M","E"," "," "," "," "," "," "," "," "," "," "," "," "," "," "," "," "," ","S","T","A","T","U","S"," "," "," "," "," ","C","P","U","%"," "," "," "," "," ","M","E","M","%">> \o Newline
            \o PadLeft(<<>>, 60, "-"), outcome, f, cwd)

(* Iterating a text file: the lines, each with its line end               *)
RECURSIVE FileLines(_)
FileLines(data) ==
    IF data = <<>> THEN <<>>
    ELSE IF \A i \in 1..Len(data) : data[i] # "\n" THEN <<data>>
    ELSE LET k == CHOOSE i \in 1..Len(data) :
                     data[i] = "\n" /\ \A j \in 1..(i - 1) : data[j] # "\n"
         IN  <<SubSeq(data, 1, k)>> \o FileLines(SubSeq(data, k + 1, Len(data)))

RECURSIVE GrepLines(_, _, _, _)
GrepLines(file_name, pattern, lines, line_num) ==
    IF lines = <<>> THEN <<>>
    ELSE (IF Contains(Head(lines), pattern)  \* re.search, pattern free of metacharacters
          THEN <<file_name \o <<":">> \o Decimal(line_num) \o <<":">>
                 \o Strip(Head(lines))>>
          ELSE <<>>)
         \o GrepLines(file_name, pattern, Tail(lines), line_num + 1)

(* Variant: the first file that cannot be read ends the search             *)
RECURSIVE GrepLoopAborts(_, _, _, _)
GrepLoopAborts(files, pattern, f, cwd) ==
    IF files = <<>> THEN <<>>
    ELSE LET file_path == PathJoin(cwd, Head(files))
             Step(r) ==
                 IF r.err # ""
                 THEN <<<<"g","r","e","p",":"," ">> \o Head(files) \o <<":"," ">> \o OsError(r.err, file_path)>>
                 ELSE GrepLines(Head(files), pattern, FileLines(r.data), 1)
                      \o GrepLoopAborts(Tail(files), pattern, f, cwd)
         IN  Step(ReadFile(f, file_path))

RECURSIVE GrepLoop(_, _, _, _)
GrepLoop(files, pattern, f, cwd) ==
    IF files = <<>> THEN <<>>
    ELSE LET file_path == PathJoin(cwd, Head(files))
             Step(r) ==
                 (IF r.err # ""
                  THEN <<<<"g","r","e","p",":"," ">> \o Head(files) \o <<":"," ">> \o OsError(r.err, file_path)>>
                  ELSE GrepLines(Head(files), pattern, FileLines(r.data), 1))
                 \o GrepLoop(Tail(files), pattern, f, cwd)
         IN  Step(ReadFile(f, file_path))

(* Variant: the handler with the search that ends at an unreadable file    *)
HandleGrepAborts(args, f, cwd) ==
    IF Len(args) < 2 THEN Returns(<<"g","r","e","p",":"," ","m","i","s","s","i","n","g"," ","a","r","g","u","m","e","n","t","s">>, f, cwd)
    ELSE Returns(Join(Newline, GrepLoopAborts(Tail(args), args[1], f, cwd)), f, cwd)

HandleGrep(args, f, cwd) ==
    IF Len(args) < 2 THEN Returns(<<"g","r","e","p",":"," ","m","i","s","s","i","n","g"," ","a","r","g","u","m","e","n","t","s">>, f, cwd)
    ELSE Returns(Join(Newline, GrepLoop(Tail(args), args[1], f, cwd)), f, cwd)

(* os.path.relpath(path, start) of two absolute paths                      *)
RelPath(p, start) ==
    LET RECURSIVE CommonLen(_, _)
        CommonLen(a, b) ==
            IF a = <<>> \/ b = <<>> \/ Head(a) # Head(b) THEN 0
            ELSE 1 + CommonLen(Tail(a), Tail(b))
        pc  == PathComps(AbsPath(p))
        sc  == PathComps(AbsPath(start))
        i   == CommonLen(sc, pc)
        rel == [k \in 1..(Len(sc) - i) |-> DotDot] \o SubSeq(pc, i + 1, Len(pc))
    IN  IF rel = <<>> THEN Dot ELSE Join(Slash, rel)

(* os.walk(top), top-down: the entries of a directory (directories, then   *)
(* files) come before the entries of its subdirectories; the order in     *)
(* which a directory lists its entries is the file system's and is taken   *)
(* here as sorted.                                                         *)
RECURSIVE WalkTree(_, _, _)
RECURSIVE WalkDirs(_, _, _, _)
WalkTree(f, root, dir) ==
    LET KindNames(kind) ==
            Sorted({EntryName(n) : n \in {c \in Children(f, dir) : f[c].kind = kind}})
        dirs  == KindNames("dir")
        files == KindNames("file")
        here  == [k \in 1..Len(dirs \o files) |-> PathJoin(root, (dirs \o files)[k])]
    IN  here \o WalkDirs(f, root, dir, dirs)
WalkDirs(f, root, dir, dirs) ==
    IF dirs = <<>> THEN <<>>
    ELSE WalkTree(f, PathJoin(root, Head(dirs)), Append(dir, Head(dirs)))
         \o WalkDirs(f, root, dir, Tail(dirs))

OsWalk(f, top) ==
    IF IsDir(f, top) THEN WalkTree(f, top, Walk(f, top).node) ELSE <<>>

RECURSIVE FindMatches(_, _, _)
FindMatches(paths, name_pattern, cwd) ==
    IF paths = <<>> THEN <<>>
    ELSE (IF name_pattern = <<"*">> \/ Contains(BaseName(Head(paths)), name_pattern)
          THEN <<RelPath(Head(paths), cwd)>> ELSE <<>>)
         \o FindMatches(Tail(paths), name_pattern, cwd)

HandleFind(args, f, cwd) ==
    IF args = <<>> THEN Returns(<<"f","i","n","d",":"," ","m","i","s","s","i","n","g"," ","a","r","g","u","m","e","n","t","s">>, f, cwd)
    ELSE LET path == args[1]
             name_pattern == IF Len(args) > 1 THEN args[2] ELSE <<"*">>
             search_path  == PathJoin(cwd, path)
         IN  Returns(Join(Newline, FindMatches(OsWalk(f, search_path),
                                               name_pattern, cwd)), f, cwd)

(* What the host shell and the child process do is outside the program:   *)
(* the child writes to stdout and stderr, exits with a code, and may       *)
(* change the file system (here: nothing, create a file in its working     *)
(* directory, or remove its working directory).                            *)
ChildBehaviours ==
    { [stdout |-> <<" ","o","u","t"," ","\n">>, stderr |-> <<>>, returncode |-> 0, effect |-> "none"]
    , [stdout |-> <<"o","u","t">>, stderr |-> <<" ","n","o","t"," ","f","o","u","n","d"," ","\n">>, returncode |-> 127, effect |-> "create"]
    , [stdout |-> <<>>, stderr |-> <<>>, returncode |-> 2, effect |-> "remove_cwd"]
    }

ChildEffect(effect, f, cwd) ==
    LET node == Walk(f, cwd).node
    IN  CASE effect = "none" -> f
          [] effect = "create" -> With(f, Append(node, <<"t">>), FileEntry(<<>>))
          [] effect = "remove_cwd" ->
                IF node = Root THEN f
                ELSE Without(f, {n \in DOMAIN f : IsUnder(n, node)})

NoExternal ==
    [called |-> FALSE, command |-> <<>>, cwd |-> <<>>, spawned |-> FALSE,
     returncode |-> 0, stdout |-> <<>>, stderr |-> <<>>]

(* The result triple of execute_command together with what the call       *)
(* leaves behind and what it asked of the host shell.                      *)
Result(output, exit_code, error, f, cwd, ext) ==
    [output |-> output, exit_code |-> exit_code, error |-> error,
     fs |-> f, cwd |-> cwd, external |-> ext]

(* Variant: the child is started without cwd=, in the directory of the    *)
(* hosting process                                                         *)
ExternalRequestNoCwd(command, cwd) ==
    [NoExternal EXCEPT !.called = TRUE, !.command = command, !.cwd = ProcessCwd]

(* subprocess.run(command, shell=True, cwd=self.current_directory, ...):   *)
(* what is asked of the host shell                                         *)
ExternalRequest(command, cwd) ==
    [NoExternal EXCEPT !.called = TRUE, !.command = command, !.cwd = cwd]

(* Variant: the newline and stderr are appended whether or not stderr is   *)
(* empty                                                                   *)
ExecuteExternalCommandAlwaysAppends(command, env, f, cwd) ==
    LET ShellPath == <<"/","b","i","n","/","s","h">>
        SpawnFailedPrefix == <<"F","a","i","l","e","d"," ","t","o"," ","e","x","e","c","u","t","e"," ","c","o","m","m","a","n","d",":"," ">>
        w == Walk(f, cwd)
        request == ExternalRequest(command, cwd)
        cwdErr == IF w.err # "" THEN w.err
                  ELSE IF w.node \notin DOMAIN f THEN "ENOENT"
                  ELSE IF f[w.node].kind # "dir" THEN "ENOTDIR"
                  ELSE ""
    IN  IF cwdErr # ""
        THEN Result(<<>>, 1, SpawnFailedPrefix \o OsError(cwdErr, cwd),
                    f, cwd, request)
        ELSE IF ~env.shell
        THEN Result(<<>>, 1, SpawnFailedPrefix \o OsError("ENOENT", ShellPath),
                    f, cwd, request)
        ELSE LET child  == env.child
                 stdout == Strip(child.stdout)
                 output == stdout \o Newline \o Strip(child.stderr)
             IN  Result(output, child.returncode, <<>>,
                        ChildEffect(child.effect, f, cwd), cwd,
                        [request EXCEPT !.spawned = TRUE,
                                        !.returncode = child.returncode,
                                        !.stdout = child.stdout,
                                        !.stderr = child.stderr])

(* _execute_external_command; env.shell tells whether the host shell can   *)
(* be started, env.child what the child does                               *)
ExecuteExternalCommand(command, env, f, cwd) ==
    LET ShellPath == <<"/","b","i","n","/","s","h">>
        SpawnFailedPrefix == <<"F","a","i","l","e","d"," ","t","o"," ","e","x","e","c","u","t","e"," ","c","o","m","m","a","n","d",":"," ">>
        w == Walk(f, cwd)
        request == ExternalRequest(command, cwd)
        cwdErr == IF w.err # "" THEN w.err
                  ELSE IF w.node \notin DOMAIN f THEN "ENOENT"
                  ELSE IF f[w.node].kind # "dir" THEN "ENOTDIR"
                  ELSE ""
    IN  IF cwdErr # ""
        THEN Result(<<>>, 1, SpawnFailedPrefix \o OsError(cwdErr, cwd),
                    f, cwd, request)
        ELSE IF ~env.shell
        THEN Result(<<>>, 1, SpawnFailedPrefix \o OsError("ENOENT", ShellPath),
                    f, cwd, request)
        ELSE LET child  == env.child
                 stdout == Strip(child.stdout)
                 output == IF child.stderr # <<>>
                           THEN stdout \o Newline \o Strip(child.stderr)
                           ELSE stdout
             IN  Result(output, child.returncode, <<>>,
                        ChildEffect(child.effect, f, cwd), cwd,
                        [request EXCEPT !.spawned = TRUE,
                                        !.returncode = child.returncode,
                                        !.stdout = child.stdout,
                                        !.stderr = child.stderr])

(* Variant: the chain tests cmd == 'exit' only                              *)
HandledNamesNoQuit ==
    { <<"e","x","i","t">>, <<"h","e","l","p">>, <<"c","l","e","a","r">>, <<"h","i","s","t","o","r","y">>, <<"c","d">>, <<"p","w","d">>
    , <<"l","s">>, <<"d","i","r">>, <<"m","k","d","i","r">>, <<"r","m","d","i","r">>, <<"r","m">>, <<"c","p">>, <<"m","v">>, <<"c","a","t">>
    , <<"t","o","u","c","h">>, <<"e","c","h","o">>, <<"w","h","o","a","m","i">>, <<"h","o","s","t","n","a","m","e">>, <<"d","a","t","e">>, <<"e","n","v">>
    , <<"c","p","u">>, <<"m","e","m","o","r","y">>, <<"d","i","s","k">>, <<"p","s">>, <<"g","r","e","p">>, <<"f","i","n","d">> }

(* The names the if/elif chain of execute_command has a branch for         *)
HandledNames ==
    { <<"e","x","i","t">>, <<"q","u","i","t">>, <<"h","e","l","p">>, <<"c","l","e","a","r">>, <<"h","i","s","t","o","r","y">>, <<"c","d">>, <<"p","w","d">>
    , <<"l","s">>, <<"d","i","r">>, <<"m","k","d","i","r">>, <<"r","m","d","i","r">>, <<"r","m">>, <<"c","p">>, <<"m","v">>, <<"c","a","t">>
    , <<"t","o","u","c","h">>, <<"e","c","h","o">>, <<"w","h","o","a","m","i">>, <<"h","o","s","t","n","a","m","e">>, <<"d","a","t","e">>, <<"e","n","v">>
    , <<"c","p","u">>, <<"m","e","m","o","r","y">>, <<"d","i","s","k">>, <<"p","s">>, <<"g","r","e","p">>, <<"f","i","n","d">> }

(* The handler the chain selects for cmd                                   *)
RunHandler(cmd, args, hist, clock, env, f, cwd) ==
    CASE cmd \in {<<"e","x","i","t">>, <<"q","u","i","t">>} -> Returns(<<"G","o","o","d","b","y","e","!">>, f, cwd)
      [] cmd = <<"h","e","l","p">>     -> HandleHelp(args, f, cwd)
      [] cmd = <<"c","l","e","a","r">>    -> HandleClear(f, cwd)
      [] cmd = <<"h","i","s","t","o","r","y">>  -> HandleHistory(args, hist, f, cwd)
      [] cmd = <<"c","d">>       -> HandleCd(args, f, cwd)
      [] cmd = <<"p","w","d">>      -> HandlePwd(f, cwd)
      [] cmd \in {<<"l","s">>, <<"d","i","r">>} -> HandleLs(args, f, cwd)
      [] cmd = <<"m","k","d","i","r">>    -> HandleMkdir(args, f, cwd)
      [] cmd = <<"r","m","d","i","r">>    -> HandleRmdir(args, f, cwd)
      [] cmd = <<"r","m">>       -> HandleRm(args, f, cwd)
      [] cmd = <<"c","p">>       -> HandleCp(args, f, cwd)
      [] cmd = <<"m","v">>       -> HandleMv(args, f, cwd)
      [] cmd = <<"c","a","t">>      -> HandleCat(args, f, cwd)
      [] cmd = <<"t","o","u","c","h">>    -> HandleTouch(args, f, cwd)
      [] cmd = <<"e","c","h","o">>     -> HandleEcho(args, f, cwd)
      [] cmd = <<"w","h","o","a","m","i">>   -> HandleWhoami(f, cwd)
      [] cmd = <<"h","o","s","t","n","a","m","e">> -> HandleHostname(f, cwd)
      [] cmd = <<"d","a","t","e">>     -> HandleDate(args, clock, f, cwd)
      [] cmd = <<"e","n","v">>      -> HandleEnv(args, f, cwd)
      [] cmd = <<"c","p","u">>      -> HandleCpu(env.metrics, f, cwd)
      [] cmd = <<"m","e","m","o","r","y">>   -> HandleMemory(env.metrics, f, cwd)
      [] cmd = <<"d","i","s","k">>     -> HandleDisk(env.metrics, f, cwd)
      [] cmd = <<"p","s">>       -> HandlePs(env.metrics, f, cwd)
      [] cmd = <<"g","r","e","p">>     -> HandleGrep(args, f, cwd)
      [] cmd = <<"f","i","n","d">>     -> HandleFind(args, f, cwd)

(* parts = command.strip().split(); cmd = parts[0].lower(); args = parts[1:] *)
CommandName(command) == Lower(Split(Strip(command))[1])
CommandArgs(command) == Tail(Split(Strip(command)))

(* Variants: the text of the exception is dropped; the text is returned    *)
(* as output                                                               *)
OuterGuardSilent(h) == Result(<<>>, 1, <<>>, h.fs, h.cwd, NoExternal)
OuterGuardOutput(h) == Result(h.msg, 1, <<>>, h.fs, h.cwd, NoExternal)

(* except Exception as e: return "", 1, str(e)                             *)
OuterGuard(h) == Result(<<>>, 1, h.msg, h.fs, h.cwd, NoExternal)

(* A result together with the observation whether an exception escaped     *)
(* the handler, and its text                                               *)
Observed(r, raised, failure) == r @@ [raised |-> raised, failure |-> failure]

(* execute_command after the history append: parse, dispatch, and the      *)
(* outer try/except                                                        *)
Dispatch(command, hist, clock, env, f, cwd) ==
    LET cmd  == CommandName(command)
        args == CommandArgs(command)
        Handled(h) ==
            Observed(IF h.raised THEN OuterGuard(h)
                     ELSE Result(h.out, 0, <<>>, h.fs, h.cwd, NoExternal),
                     h.raised, h.msg)
    IN  IF cmd \in HandledNames
        THEN Handled(RunHandler(cmd, args, hist, clock, env, f, cwd))
        ELSE Observed(ExecuteExternalCommand(command, env, f, cwd), FALSE, <<>>)

IsBlank(command) == Strip(command) = <<>>

(* Variant: the stripped text is recorded                                  *)
HistoryEntryStripped(command, clock, cwd) ==
    [command |-> Strip(command), timestamp |-> clock, directory |-> cwd]

HistoryEntry(command, clock, cwd) ==
    [command |-> command, timestamp |-> clock, directory |-> cwd]

----------------------------------------------------------------------------
(* State                                                                   *)

VARIABLES
    current_directory,  \* TerminalCore.current_directory
    command_history,    \* TerminalCore.command_history
    fs,                 \* the file system the commands act on
    clock,              \* datetime.now(), in seconds
    last,               \* the last execute_command call and what it returned
    requests,           \* the POST /execute requests the web server is handling
    posts,              \* the number of requests received so far
    console,            \* the console loop: TerminalInterface and where it stands
    reply               \* the last call made outside execute_command and its result

vars == <<current_directory, command_history, fs, clock, last, requests, posts,
          console, reply>>

(* Bounds of the exploration: the number of calls recorded, the number     *)
(* of requests the web server handles at the same time, and the number of  *)
(* requests it receives                                                    *)
MaxHistory == 2
NumThreads == 2
MaxPosts == 2
MaxInterrupts == 2
Threads == 1..NumThreads

(* The command lines submitted                                             *)
Commands ==
    { <<>>
    , <<" ","\t"," ">>
    , <<"c","d">>
    , <<"c","d"," ","a">>
    , <<"C","D"," "," ","d">>
    , <<"c","d"," ","B">>
    , <<"c","d"," ","f">>
    , <<"c","d"," ","f","/",".",".">>
    , <<"c","d"," ","f","/",".",".","/","a">>
    , <<"c","d"," ","~">>
    , <<"c","d"," ","-">>
    , <<"m","k","d","i","r">>
    , <<"m","k","d","i","r"," ","a","/","b"," ","c">>
    , <<"r","m","d","i","r"," ",".",".","/","a">>
    , <<"r","m","d","i","r"," ","h">>
    , <<"r","m","d","i","r"," ","d">>
    , <<"r","m"," ","d">>
    , <<"r","m"," ","-","r"," ","d">>
    , <<"r","m"," ","-","r">>
    , <<"m","v"," ","a"," ","b">>
    , <<"c","p"," ","-","r"," ","-","r">>
    , <<"c","p"," ","-","r"," ","a">>
    , <<"t","o","u","c","h"," ","n">>
    , <<"c","a","t"," ","f"," ","n","o","f","i","l","e">>
    , <<"l","s"," ","-","a">>
    , <<"d","i","r"," ","-","l">>
    , <<"e","c","h","o"," ","H","i"," "," ","t","h","e","r","e">>
    , <<"p","w","d">>
    , <<"h","e","l","p"," ","n","o","s","u","c","h">>
    , <<"h","i","s","t","o","r","y">>
    , <<"c","l","e","a","r">>
    , <<"w","h","o","a","m","i">>
    , <<"h","o","s","t","n","a","m","e">>
    , <<"d","a","t","e">>
    , <<"e","n","v"," ","H","O","M","E"," ","X">>
    , <<"c","p","u">>
    , <<"p","s">>
    , <<"g","r","e","p"," ","x"," ","f">>
    , <<"f","i","n","d"," ","n","o","s","u","c","h">>
    , <<"e","x","i","t">>
    , <<"Q","U","I","T"," ","n","o","w">>
    , <<" ","f","r","o","b","n","i","c","a","t","e","1","2","3"," "," ","-","x"," ">>
    , <<"H","e","a","d"," "," ","f">>
    }

(* The file system at start                                                *)
InitialFs ==
    (Root :> DirEntry)
    @@ (<<<<"a">>>> :> DirEntry)
    @@ (<<<<"d">>>> :> DirEntry)
    @@ (<<<<"d">>, <<"g">>>> :> FileEntry(<<"x","\n">>))
    @@ (<<<<"f">>>> :> FileEntry(<<"a","x","\n","b","\n"," ","x"," ","y","\n">>))
    @@ (<<<<"h">>>> :> DirEntry)
    @@ (<<<<".","p">>>> :> FileEntry(<<>>))

DefaultEnv ==
    [metrics |-> "ok", shell |-> TRUE,
     child |-> [stdout |-> <<>>, stderr |-> <<>>, returncode |-> 0, effect |-> "none"]]

(* What of the outside world a command line consults                       *)
Environments(command) ==
    IF IsBlank(command) THEN {DefaultEnv}
    ELSE IF CommandName(command) \in {<<"c","p","u">>, <<"m","e","m","o","r","y">>, <<"d","i","s","k">>, <<"p","s">>}
         THEN {[DefaultEnv EXCEPT !.metrics = m] : m \in MetricsOutcomes}
    ELSE IF CommandName(command) \notin HandledNames
         THEN {[DefaultEnv EXCEPT !.shell = FALSE]}
              \cup {[DefaultEnv EXCEPT !.child = c] : c \in ChildBehaviours}
    ELSE {DefaultEnv}

NoCall ==
    [made |-> FALSE, command |-> <<>>, directory |-> <<>>,
     output |-> <<>>, exit_code |-> 0, error |-> <<>>, raised |-> FALSE,
     failure |-> <<>>, external |-> NoExternal]

Call(command, cwd, r) ==
    [made |-> TRUE, command |-> command, directory |-> cwd,
     output |-> r.output, exit_code |-> r.exit_code, error |-> r.error,
     raised |-> r.raised, failure |-> r.failure, external |-> r.external]

(* A request of the web front end: where its handler stands, the command  *)
(* submitted, the directory the engine read for it, the result of          *)
(* execute_command and the JSON answer.                                    *)
NoResult == [output |-> <<>>, exit_code |-> 0, error |-> <<>>]
NoResponse == [fields |-> {}, command |-> <<>>, output |-> <<>>, exit_code |-> 0,
               error |-> <<>>, directory |-> <<>>]
IdleRequest ==
    [pc |-> "idle", command |-> <<>>, entry |-> 0, resolved |-> <<>>,
     child |-> DefaultEnv.child, external |-> NoExternal,
     result |-> NoResult, response |-> NoResponse]

(* TerminalInterface.__init__: the loop has not been started                *)
NoConsole ==
    [running |-> FALSE, active |-> FALSE, command_count |-> 0, interrupts |-> 0,
     event |-> "none", line |-> <<>>, shown |-> "nothing"]

(* No function outside execute_command has been called                     *)
NoReply == [made |-> FALSE, function |-> "none", argument |-> <<>>, result |-> <<>>]

(* TerminalCore.__init__ (create_app builds one engine for the server)     *)
Init ==
    /\ current_directory = ProcessCwd
    /\ command_history = <<>>
    /\ fs = InitialFs
    /\ clock = 0
    /\ last = NoCall
    /\ requests = [t \in Threads |-> IdleRequest]
    /\ posts = 0
    /\ console = NoConsole
    /\ reply = NoReply

(* TerminalCore.execute_command(command), called by one caller at a time   *)
ExecuteCommand(command, env) ==
    /\ IF IsBlank(command)
       THEN /\ last' = Call(command, current_directory,
                            Observed(Result(<<>>, 0, <<>>, fs, current_directory,
                                            NoExternal), FALSE, <<>>))
            /\ UNCHANGED <<current_directory, command_history, fs, clock>>
       ELSE /\ clock < MaxHistory
            /\ command_history' =
                   Append(command_history,
                          HistoryEntry(command, clock, current_directory))
            /\ \E r \in {Dispatch(command, command_history', clock, env, fs,
                                  current_directory)} :
                   /\ current_directory' = r.cwd
                   /\ fs' = r.fs
                   /\ last' = Call(command, current_directory, r)
            /\ clock' = clock + 1

(* A call of execute_command made on the engine directly                   *)
Execute(command, env) ==
    /\ ExecuteCommand(command, env)
    /\ UNCHANGED <<requests, posts, console, reply>>

Next == \E command \in Commands : \E env \in Environments(command) :
            Execute(command, env)

Spec == Init /\ [][Next]_vars


----------------------------------------------------------------------------
(* The engine with a long history                                          *)

(* The log after n calls of echo made within the first second              *)
LongHistory(n) ==
    [i \in 1..n |-> HistoryEntry(<<"e","c","h","o"," ">> \o Decimal(i), 0, ProcessCwd)]

HistoryCommands == { <<"h","i","s","t","o","r","y">>, <<"H","I","S","T","O","R","Y"," "," ","9">>, <<"p","w","d">>, <<>> }

HistoryInit ==
    /\ current_directory = ProcessCwd
    /\ command_history \in {LongHistory(n) : n \in 0..(HistoryWindow + 2)}
    /\ fs = InitialFs
    /\ clock = 0
    /\ last = NoCall
    /\ requests = [t \in Threads |-> IdleRequest]
    /\ posts = 0
    /\ console = NoConsole
    /\ reply = NoReply

HistoryNext == \E command \in HistoryCommands : Execute(command, DefaultEnv)

HistorySpec == HistoryInit /\ [][HistoryNext]_vars

----------------------------------------------------------------------------
(* The engine given file commands                                          *)

FileCommands ==
    { <<>>
    , <<"c","d"," ","d">>
    , <<"c","d"," ","a">>
    , <<"r","m"," ","d">>
    , <<"r","m"," ","-","r"," ","d">>
    , <<"r","m"," ","-","r">>
    , <<"r","m"," ","f">>
    , <<"c","p"," ","-","r"," ","d"," ","e">>
    , <<"c","p"," ","d"," ","e">>
    , <<"c","p"," ","-","r"," ","a">>
    , <<"c","p"," ","f">>
    , <<"m","v"," ","a"," ","b">>
    , <<"m","v"," ","d"," ","a">>
    , <<"m","v"," ","a">>
    , <<"f","i","n","d">>
    , <<"f","i","n","d"," ","."," ","g">>
    , <<"f","i","n","d"," ","."," ","*">>
    , <<"g","r","e","p"," ","x"," ","n","o","f","i","l","e"," ","f"," ","d","/","g">>
    , <<"g","r","e","p"," ","z","z"," ","f">>
    , <<"g","r","e","p"," ","x">>
    , <<"m","k","d","i","r"," ","n"," ","f","/","x"," ","m">>
    , <<"m","k","d","i","r"," ","d">>
    , <<"m","k","d","i","r"," ","m","/","k">>
    , <<"r","m","d","i","r"," ","a"," ","d"," ","h">>
    , <<"r","m","d","i","r"," ","h">>
    , <<"r","m","d","i","r"," ","d">>
    , <<"t","o","u","c","h"," ","d","/","t">>
    }

FileNext == \E command \in FileCommands : Execute(command, DefaultEnv)

FileSpec == Init /\ [][FileNext]_vars

----------------------------------------------------------------------------
(* The engine given commands that list, read and create files              *)

ListCommands ==
    { <<>>
    , <<"c","d"," ","d">>
    , <<"l","s">>
    , <<"L","S"," ","-","a">>
    , <<"l","s"," ","-","-","a","l","l">>
    , <<"d","i","r"," ","-","l">>
    , <<"l","s"," ","-","-","l","o","n","g"," ","-","a"," ","d">>
    , <<"m","k","d","i","r"," ","B">>
    , <<"m","k","d","i","r"," ",".","s"," ","z">>
    , <<"r","m","d","i","r"," ",".",".","/","d">>
    , <<"r","m"," ","g">>
    , <<"t","o","u","c","h"," ","n">>
    , <<"t","o","u","c","h"," ","f"," ","g">>
    , <<"t","o","u","c","h"," ","n","o","d","i","r","/","n">>
    , <<"c","a","t">>
    , <<"c","a","t"," ","n">>
    , <<"c","a","t"," ","f"," ","d","/","g">>
    , <<"c","a","t"," ","g"," ","f"," ","n","o","f","i","l","e">>
    , <<"c","a","t"," ","f"," ","n","o","f","i","l","e"," ","d","/","g">>
    }

ListNext == \E command \in ListCommands : Execute(command, DefaultEnv)

ListSpec == Init /\ [][ListNext]_vars
----------------------------------------------------------------------------
(* The web front end: SimpleWebTerminalInterface.setup_routes.execute.     *)
(* Flask's development server (app.run) handles every request in a thread  *)
(* of its own, and all requests share the one TerminalCore of create_app;  *)
(* the code takes no lock, so the steps of two requests interleave.        *)

(* The command lines posted                                                *)
WebCommands ==
    { <<>>, <<" ">>, <<"c","d"," ","a">>, <<"c","d"," ",".",".">>, <<"r","m","d","i","r"," ","a">>, <<"H","e","a","d"," "," ","f">> }

Update(t, r) == requests' = [requests EXCEPT ![t] = r]

TripleOf(r) == [output |-> r.output, exit_code |-> r.exit_code, error |-> r.error]

EmptyCommandResponse ==
    [NoResponse EXCEPT !.fields = {"output", "error", "exit_code"},
                       !.error = <<"E","m","p","t","y"," ","c","o","m","m","a","n","d">>, !.exit_code = 1]

(* data = request.get_json(); command = data.get('command', '');           *)
(* if not command: return the "Empty command" answer                       *)
Receive(t, command) ==
    /\ requests[t].pc \in {"idle", "done"}
    /\ posts < MaxPosts
    /\ posts' = posts + 1
    /\ IF command = <<>>
       THEN Update(t, [IdleRequest EXCEPT !.pc = "done",
                                          !.response = EmptyCommandResponse])
       ELSE Update(t, [IdleRequest EXCEPT !.pc = "call", !.command = command])
    /\ UNCHANGED <<current_directory, command_history, fs, clock, last>>
    /\ UNCHANGED <<console, reply>>

(* execute_command, lines 99-107: the blank check and the history append   *)
Begin(t) ==
    /\ requests[t].pc = "call"
    /\ IF IsBlank(requests[t].command)
       THEN /\ Update(t, [requests[t] EXCEPT !.pc = "respond", !.result = NoResult])
            /\ UNCHANGED <<command_history, clock>>
       ELSE /\ command_history' =
                   Append(command_history,
                          HistoryEntry(requests[t].command, clock, current_directory))
            /\ clock' = clock + 1
            /\ Update(t, [requests[t] EXCEPT !.pc = "parsed",
                                             !.entry = Len(command_history) + 1])
    /\ UNCHANGED <<current_directory, fs, last, posts>>
    /\ UNCHANGED <<console, reply>>

(* The handler (or subprocess.run) reads self.current_directory            *)
Resolve(t) ==
    /\ requests[t].pc = "parsed"
    /\ Update(t, [requests[t] EXCEPT !.pc = "resolved",
                                     !.resolved = current_directory])
    /\ UNCHANGED <<current_directory, command_history, fs, clock, last, posts>>
    /\ UNCHANGED <<console, reply>>

(* The handler acts on the file system and, for a successful cd, assigns   *)
(* self.current_directory; an external command is started.                 *)
Apply(t, env) ==
    /\ requests[t].pc = "resolved"
    /\ \E req \in {requests[t]} :
       \E r \in {Dispatch(req.command, command_history, clock, env, fs, req.resolved)} :
           IF r.external.spawned
           THEN /\ Update(t, [req EXCEPT !.pc = "child", !.child = env.child,
                                         !.external = r.external,
                                         !.result = TripleOf(r)])
                /\ UNCHANGED <<current_directory, fs>>
           ELSE /\ Update(t, [req EXCEPT !.pc = "respond", !.external = r.external,
                                         !.result = TripleOf(r)])
                /\ fs' = r.fs
                /\ current_directory' =
                       IF r.cwd # req.resolved THEN r.cwd ELSE current_directory
    /\ UNCHANGED <<command_history, clock, last, posts>>
    /\ UNCHANGED <<console, reply>>

(* subprocess.run returns when the child has exited                        *)
ChildExit(t) ==
    /\ requests[t].pc = "child"
    /\ fs' = IF IsDir(fs, requests[t].resolved)
             THEN ChildEffect(requests[t].child.effect, fs, requests[t].resolved)
             ELSE fs
    /\ Update(t, [requests[t] EXCEPT !.pc = "respond"])
    /\ UNCHANGED <<current_directory, command_history, clock, last, posts>>
    /\ UNCHANGED <<console, reply>>

(* return jsonify({... 'directory': self.terminal_core.current_directory}) *)
Respond(t) ==
    /\ requests[t].pc = "respond"
    /\ Update(t, [requests[t] EXCEPT
                    !.pc = "done",
                    !.response =
                        [fields |-> {"command", "output", "exit_code", "error",
                                     "directory"},
                         command |-> requests[t].command,
                         output |-> requests[t].result.output,
                         exit_code |-> requests[t].result.exit_code,
                         error |-> requests[t].result.error,
                         directory |-> current_directory]])
    /\ UNCHANGED <<current_directory, command_history, fs, clock, last, posts>>
    /\ UNCHANGED <<console, reply>>

WebNext ==
    \E t \in Threads :
        \/ \E command \in WebCommands : Receive(t, command)
        \/ Begin(t)
        \/ Resolve(t)
        \/ \E env \in Environments(requests[t].command) : Apply(t, env)
        \/ ChildExit(t)
        \/ Respond(t)

WebSpec == Init /\ [][WebNext]_vars


----------------------------------------------------------------------------
(* The console loop: TerminalInterface.start                               *)

(* The lines typed at the prompt                                           *)
ConsoleLines ==
    { <<>>, <<" "," ">>, <<"e","x","i","t">>, <<" ","Q","U","I","T"," ">>, <<"e","x","i","t"," ","n","o","w">>, <<"C","l","e","a","r">>, <<"p","w","d">>
    , <<"c","d"," ","a">>, <<"h","i","s","t","o","r","y">>, <<"H","e","a","d"," "," ","f">> }

(* start(): self.running = True, the welcome text is shown                 *)
Start ==
    /\ ~console.active
    /\ console.event = "none"
    /\ console' = [console EXCEPT !.running = TRUE, !.active = TRUE,
                                  !.event = "start", !.shown = "welcome"]
    /\ UNCHANGED <<current_directory, command_history, fs, clock, last,
                   requests, posts, reply>>

(* What _process_command prints after execute_command returned             *)
Shown(call) ==
    IF call.output # <<>> \/ call.error # <<>> THEN "result"
    ELSE IF call.exit_code # 0 THEN "code"
    ELSE "nothing"

(* Variant: clear is passed to the engine like any other command           *)
ReadLineExecutesClear(line, env) ==
    /\ console.active
    /\ console.running
    /\ IF Strip(line) = <<>>
       THEN /\ console' = [console EXCEPT !.event = "line", !.line = line,
                                          !.shown = "nothing"]
            /\ UNCHANGED <<current_directory, command_history, fs, clock, last>>
       ELSE /\ console.command_count < MaxHistory
            /\ IF Lower(Strip(line)) \in {<<"e","x","i","t">>, <<"q","u","i","t">>}
               THEN /\ console' = [console EXCEPT
                                     !.event = "line", !.line = line,
                                     !.command_count = @ + 1,
                                     !.shown = "farewell",
                                     !.running = FALSE, !.active = FALSE]
                    /\ UNCHANGED <<current_directory, command_history, fs, clock, last>>
               ELSE /\ ExecuteCommand(Strip(line), env)
                    /\ console' = [console EXCEPT
                                     !.event = "line", !.line = line,
                                     !.command_count = @ + 1,
                                     !.shown = Shown(last')]
    /\ UNCHANGED <<requests, posts, reply>>

(* One turn of the loop with a line read by input(): the line is stripped, *)
(* an empty one skipped, the others counted and given to _process_command  *)
ReadLine(line, env) ==
    /\ console.active
    /\ console.running
    /\ IF Strip(line) = <<>>
       THEN /\ console' = [console EXCEPT !.event = "line", !.line = line,
                                          !.shown = "nothing"]
            /\ UNCHANGED <<current_directory, command_history, fs, clock, last>>
       ELSE /\ console.command_count < MaxHistory
            /\ IF Lower(Strip(line)) \in {<<"e","x","i","t">>, <<"q","u","i","t">>}
               THEN /\ console' = [console EXCEPT
                                     !.event = "line", !.line = line,
                                     !.command_count = @ + 1,
                                     !.shown = "farewell",
                                     !.running = FALSE, !.active = FALSE]
                    /\ UNCHANGED <<current_directory, command_history, fs, clock, last>>
               ELSE IF Lower(Strip(line)) = <<"c","l","e","a","r">>
               THEN /\ console' = [console EXCEPT
                                     !.event = "line", !.line = line,
                                     !.command_count = @ + 1,
                                     !.shown = "cleared"]
                    /\ UNCHANGED <<current_directory, command_history, fs, clock, last>>
               ELSE /\ ExecuteCommand(Strip(line), env)
                    /\ console' = [console EXCEPT
                                     !.event = "line", !.line = line,
                                     !.command_count = @ + 1,
                                     !.shown = Shown(last')]
    /\ UNCHANGED <<requests, posts, reply>>

(* Variant: KeyboardInterrupt is not caught and ends the loop              *)
InterruptQuits ==
    /\ console.active
    /\ console.interrupts < MaxInterrupts
    /\ console' = [console EXCEPT !.event = "interrupt", !.interrupts = @ + 1,
                                  !.shown = "nothing", !.active = FALSE]
    /\ UNCHANGED <<current_directory, command_history, fs, clock, last,
                   requests, posts, reply>>

(* Ctrl-C at the prompt: KeyboardInterrupt is caught, a hint is shown and  *)
(* the loop goes on                                                        *)
Interrupt ==
    /\ console.active
    /\ console.interrupts < MaxInterrupts
    /\ console' = [console EXCEPT !.event = "interrupt", !.interrupts = @ + 1,
                                  !.shown = "hint"]
    /\ UNCHANGED <<current_directory, command_history, fs, clock, last,
                   requests, posts, reply>>

(* End of input at the prompt: EOFError, a farewell is shown, break        *)
EndOfInput ==
    /\ console.active
    /\ console' = [console EXCEPT !.event = "eof", !.shown = "goodbye",
                                  !.active = FALSE]
    /\ UNCHANGED <<current_directory, command_history, fs, clock, last,
                   requests, posts, reply>>

(* Any other exception raised by input() or print() inside the loop: the   *)
(* outer handler reports an interface error and start() returns            *)
InterfaceError ==
    /\ console.active
    /\ console' = [console EXCEPT !.event = "error", !.shown = "interface error",
                                  !.active = FALSE]
    /\ UNCHANGED <<current_directory, command_history, fs, clock, last,
                   requests, posts, reply>>

ConsoleNext ==
    \/ Start
    \/ \E line \in ConsoleLines :
          \E env \in (IF Strip(line) = <<>> THEN {DefaultEnv}
                      ELSE Environments(Strip(line))) :
             ReadLine(line, env)
    \/ Interrupt
    \/ EndOfInput
    \/ InterfaceError

ConsoleSpec == Init /\ [][ConsoleNext]_vars

----------------------------------------------------------------------------
(* The permission string of ls -l: TerminalCore._get_permissions           *)

(* The st_mode values given to _get_permissions: every combination of the  *)
(* nine permission bits, alone and below the bits that os.stat sets above  *)
(* them (setuid/setgid/sticky, the file type)                              *)
ModeValues ==
    { low + high : low \in 0..511, high \in {0, 512, 3584, 16384, 32768} }

PermissionsInit ==
    /\ current_directory = ProcessCwd
    /\ command_history = <<>>
    /\ fs = InitialFs
    /\ clock = 0
    /\ last = NoCall
    /\ requests = [t \in Threads |-> IdleRequest]
    /\ posts = 0
    /\ console = NoConsole
    /\ \E mode \in ModeValues :
          reply = [NoReply EXCEPT !.function = "_get_permissions", !.argument = mode]

(* permissions = self._get_permissions(stat_info.st_mode)                  *)
GetPermissionsCall ==
    /\ reply.function = "_get_permissions"
    /\ ~reply.made
    /\ reply' = [reply EXCEPT !.made = TRUE, !.result = GetPermissions(reply.argument)]
    /\ UNCHANGED <<current_directory, command_history, fs, clock, last,
                   requests, posts, console>>

PermissionsSpec == PermissionsInit /\ [][GetPermissionsCall]_vars

----------------------------------------------------------------------------
(* The natural-language processor: AICommandProcessor                      *)

(* _initialize_command_patterns: the patterns in the order of the table,   *)
(* each with the category it belongs to and the suggestions of that        *)
(* category.  A pattern is the syntax tree of its regular expression:      *)
(* Lit a literal text, Ws \s+, Rest (.+), Opt x?, Alt (x|y), Cat xy.        *)
CommandPatterns ==
    LET Lit(s)  == [k |-> "lit", s |-> s, rs |-> <<>>]
        Ws      == [k |-> "ws",  s |-> <<>>, rs |-> <<>>]
        Rest     == [k |-> "any", s |-> <<>>, rs |-> <<>>]
        Opt(r)  == [k |-> "opt", s |-> <<>>, rs |-> <<r>>]
        Alt(rs) == [k |-> "alt", s |-> <<>>, rs |-> rs]
        Cat(rs) == [k |-> "seq", s |-> <<>>, rs |-> rs]
        P(category, suggestions, pattern) ==
            [category |-> category, suggestions |-> suggestions, pattern |-> pattern]
    IN
    <<  P("file_operations", <<<<"l","s">>, <<"l","s"," ","-","l","a">>, <<"d","i","r">>>>,
          Cat(<<Lit(<<"l","i","s","t">>), Ws, Alt(<<Cat(<<Lit(<<"f","i","l","e">>), Opt(Lit(<<"s">>))>>), Cat(<<Lit(<<"c","o","n","t","e","n","t">>), Opt(Lit(<<"s">>))>>), Lit(<<"d","i","r","e","c","t","o","r","y">>)>>)>>))
      , P("file_operations", <<<<"l","s">>, <<"l","s"," ","-","l","a">>, <<"d","i","r">>>>,
          Cat(<<Lit(<<"s","h","o","w">>), Ws, Alt(<<Cat(<<Lit(<<"f","i","l","e">>), Opt(Lit(<<"s">>))>>), Cat(<<Lit(<<"c","o","n","t","e","n","t">>), Opt(Lit(<<"s">>))>>)>>)>>))
      , P("file_operations", <<<<"l","s">>, <<"l","s"," ","-","l","a">>, <<"d","i","r">>>>,
          Cat(<<Lit(<<"w","h","a","t">>), Opt(Lit(<<"'">>)), Opt(Lit(<<"s">>)), Ws, Lit(<<"i","n">>), Ws, Opt(Cat(<<Lit(<<"t","h","i","s">>), Ws>>)), Alt(<<Lit(<<"f","o","l","d","e","r">>), Lit(<<"d","i","r","e","c","t","o","r","y">>)>>)>>))
      , P("file_operations", <<<<"l","s">>, <<"l","s"," ","-","l","a">>, <<"d","i","r">>>>,
          Cat(<<Lit(<<"d","i","s","p","l","a","y">>), Ws, Alt(<<Cat(<<Lit(<<"f","i","l","e">>), Opt(Lit(<<"s">>))>>), Cat(<<Lit(<<"c","o","n","t","e","n","t">>), Opt(Lit(<<"s">>))>>)>>)>>))
      , P("navigation", <<<<"c","d">>>>,
          Cat(<<Lit(<<"g","o">>), Ws, Lit(<<"t","o">>), Ws, Rest>>))
      , P("navigation", <<<<"c","d">>>>,
          Cat(<<Lit(<<"c","h","a","n","g","e">>), Ws, Opt(Cat(<<Lit(<<"t","o">>), Ws>>)), Rest>>))
      , P("navigation", <<<<"c","d">>>>,
          Cat(<<Lit(<<"c","d">>), Ws, Rest>>))
      , P("navigation", <<<<"c","d">>>>,
          Cat(<<Lit(<<"n","a","v","i","g","a","t","e">>), Ws, Lit(<<"t","o">>), Ws, Rest>>))
      , P("create_file", <<<<"t","o","u","c","h">>>>,
          Cat(<<Lit(<<"c","r","e","a","t","e">>), Ws, Alt(<<Lit(<<"f","i","l","e">>), Lit(<<"d","o","c","u","m","e","n","t">>)>>), Ws, Rest>>))
      , P("create_file", <<<<"t","o","u","c","h">>>>,
          Cat(<<Lit(<<"m","a","k","e">>), Ws, Alt(<<Lit(<<"f","i","l","e">>), Lit(<<"d","o","c","u","m","e","n","t">>)>>), Ws, Rest>>))
      , P("create_file", <<<<"t","o","u","c","h">>>>,
          Cat(<<Lit(<<"n","e","w">>), Ws, Alt(<<Lit(<<"f","i","l","e">>), Lit(<<"d","o","c","u","m","e","n","t">>)>>), Ws, Rest>>))
      , P("create_file", <<<<"t","o","u","c","h">>>>,
          Cat(<<Lit(<<"t","o","u","c","h">>), Ws, Rest>>))
      , P("create_directory", <<<<"m","k","d","i","r">>>>,
          Cat(<<Lit(<<"c","r","e","a","t","e">>), Ws, Alt(<<Lit(<<"f","o","l","d","e","r">>), Lit(<<"d","i","r","e","c","t","o","r","y">>)>>), Ws, Rest>>))
      , P("create_directory", <<<<"m","k","d","i","r">>>>,
          Cat(<<Lit(<<"m","a","k","e">>), Ws, Alt(<<Lit(<<"f","o","l","d","e","r">>), Lit(<<"d","i","r","e","c","t","o","r","y">>)>>), Ws, Rest>>))
      , P("create_directory", <<<<"m","k","d","i","r">>>>,
          Cat(<<Lit(<<"n","e","w">>), Ws, Alt(<<Lit(<<"f","o","l","d","e","r">>), Lit(<<"d","i","r","e","c","t","o","r","y">>)>>), Ws, Rest>>))
      , P("create_directory", <<<<"m","k","d","i","r">>>>,
          Cat(<<Lit(<<"m","k","d","i","r">>), Ws, Rest>>))
      , P("copy", <<<<"c","p">>>>,
          Cat(<<Lit(<<"c","o","p","y">>), Ws, Rest, Ws, Lit(<<"t","o">>), Ws, Rest>>))
      , P("copy", <<<<"c","p">>>>,
          Cat(<<Lit(<<"d","u","p","l","i","c","a","t","e">>), Ws, Rest>>))
      , P("copy", <<<<"c","p">>>>,
          Cat(<<Lit(<<"c","p">>), Ws, Rest>>))
      , P("move", <<<<"m","v">>>>,
          Cat(<<Lit(<<"m","o","v","e">>), Ws, Rest, Ws, Lit(<<"t","o">>), Ws, Rest>>))
      , P("move", <<<<"m","v">>>>,
          Cat(<<Lit(<<"r","e","n","a","m","e">>), Ws, Rest, Ws, Lit(<<"t","o">>), Ws, Rest>>))
      , P("move", <<<<"m","v">>>>,
          Cat(<<Lit(<<"m","v">>), Ws, Rest>>))
      , P("delete", <<<<"r","m">>, <<"r","m"," ","-","r","f">>>>,
          Cat(<<Lit(<<"d","e","l","e","t","e">>), Ws, Rest>>))
      , P("delete", <<<<"r","m">>, <<"r","m"," ","-","r","f">>>>,
          Cat(<<Lit(<<"r","e","m","o","v","e">>), Ws, Rest>>))
      , P("delete", <<<<"r","m">>, <<"r","m"," ","-","r","f">>>>,
          Cat(<<Lit(<<"r","m">>), Ws, Rest>>))
      , P("delete", <<<<"r","m">>, <<"r","m"," ","-","r","f">>>>,
          Cat(<<Lit(<<"g","e","t">>), Ws, Lit(<<"r","i","d">>), Ws, Lit(<<"o","f">>), Ws, Rest>>))
      , P("search", <<<<"f","i","n","d">>, <<"g","r","e","p">>>>,
          Cat(<<Lit(<<"f","i","n","d">>), Ws, Rest>>))
      , P("search", <<<<"f","i","n","d">>, <<"g","r","e","p">>>>,
          Cat(<<Lit(<<"s","e","a","r","c","h">>), Ws, Lit(<<"f","o","r">>), Ws, Rest>>))
      , P("search", <<<<"f","i","n","d">>, <<"g","r","e","p">>>>,
          Cat(<<Lit(<<"l","o","o","k">>), Ws, Lit(<<"f","o","r">>), Ws, Rest>>))
      , P("system_info", <<<<"u","n","a","m","e"," ","-","a">>, <<"s","y","s","t","e","m","i","n","f","o">>>>,
          Cat(<<Lit(<<"s","y","s","t","e","m">>), Ws, Lit(<<"i","n","f","o">>)>>))
      , P("system_info", <<<<"u","n","a","m","e"," ","-","a">>, <<"s","y","s","t","e","m","i","n","f","o">>>>,
          Cat(<<Lit(<<"c","o","m","p","u","t","e","r">>), Ws, Lit(<<"i","n","f","o">>)>>))
      , P("system_info", <<<<"u","n","a","m","e"," ","-","a">>, <<"s","y","s","t","e","m","i","n","f","o">>>>,
          Cat(<<Lit(<<"m","a","c","h","i","n","e">>), Ws, Lit(<<"i","n","f","o">>)>>))
      , P("system_info", <<<<"u","n","a","m","e"," ","-","a">>, <<"s","y","s","t","e","m","i","n","f","o">>>>,
          Cat(<<Lit(<<"w","h","a","t">>), Opt(Lit(<<"'">>)), Opt(Lit(<<"s">>)), Ws, Lit(<<"m","y">>), Ws, Lit(<<"s","y","s","t","e","m">>)>>))
      , P("cpu_info", <<<<"c","p","u">>>>,
          Cat(<<Lit(<<"c","p","u">>), Ws, Alt(<<Lit(<<"i","n","f","o">>), Lit(<<"u","s","a","g","e">>), Lit(<<"s","t","a","t","u","s">>)>>)>>))
      , P("cpu_info", <<<<"c","p","u">>>>,
          Cat(<<Lit(<<"p","r","o","c","e","s","s","o","r">>), Ws, Alt(<<Lit(<<"i","n","f","o">>), Lit(<<"u","s","a","g","e">>)>>)>>))
      , P("cpu_info", <<<<"c","p","u">>>>,
          Cat(<<Lit(<<"h","o","w">>), Opt(Lit(<<"'">>)), Opt(Lit(<<"s">>)), Ws, Lit(<<"t","h","e">>), Ws, Lit(<<"c","p","u">>)>>))
      , P("memory_info", <<<<"m","e","m","o","r","y">>>>,
          Cat(<<Lit(<<"m","e","m","o","r","y">>), Ws, Alt(<<Lit(<<"i","n","f","o">>), Lit(<<"u","s","a","g","e">>)>>)>>))
      , P("memory_info", <<<<"m","e","m","o","r","y">>>>,
          Cat(<<Lit(<<"r","a","m">>), Ws, Alt(<<Lit(<<"i","n","f","o">>), Lit(<<"u","s","a","g","e">>)>>)>>))
      , P("memory_info", <<<<"m","e","m","o","r","y">>>>,
          Cat(<<Lit(<<"h","o","w">>), Ws, Lit(<<"m","u","c","h">>), Ws, Lit(<<"m","e","m","o","r","y">>)>>))
      , P("disk_info", <<<<"d","i","s","k">>>>,
          Cat(<<Lit(<<"d","i","s","k">>), Ws, Alt(<<Lit(<<"i","n","f","o">>), Lit(<<"u","s","a","g","e">>), Lit(<<"s","p","a","c","e">>)>>)>>))
      , P("disk_info", <<<<"d","i","s","k">>>>,
          Cat(<<Lit(<<"s","t","o","r","a","g","e">>), Ws, Alt(<<Lit(<<"i","n","f","o">>), Lit(<<"u","s","a","g","e">>)>>)>>))
      , P("disk_info", <<<<"d","i","s","k">>>>,
          Cat(<<Lit(<<"h","o","w">>), Ws, Lit(<<"m","u","c","h">>), Ws, Lit(<<"s","p","a","c","e">>)>>))
      , P("processes", <<<<"p","s">>, <<"p","s"," ","a","u","x">>>>,
          Cat(<<Lit(<<"r","u","n","n","i","n","g">>), Ws, Lit(<<"p","r","o","c","e","s","s","e","s">>)>>))
      , P("processes", <<<<"p","s">>, <<"p","s"," ","a","u","x">>>>,
          Cat(<<Lit(<<"w","h","a","t">>), Opt(Lit(<<"'">>)), Opt(Lit(<<"s">>)), Ws, Lit(<<"r","u","n","n","i","n","g">>)>>))
      , P("processes", <<<<"p","s">>, <<"p","s"," ","a","u","x">>>>,
          Cat(<<Lit(<<"p","r","o","c","e","s","s">>), Ws, Lit(<<"l","i","s","t">>)>>))
      , P("processes", <<<<"p","s">>, <<"p","s"," ","a","u","x">>>>,
          Cat(<<Lit(<<"t","a","s","k">>), Ws, Lit(<<"m","a","n","a","g","e","r">>)>>))
      , P("network", <<<<"p","i","n","g">>, <<"c","u","r","l">>>>,
          Cat(<<Lit(<<"n","e","t","w","o","r","k">>), Ws, Alt(<<Lit(<<"i","n","f","o">>), Lit(<<"s","t","a","t","u","s">>)>>)>>))
      , P("network", <<<<"p","i","n","g">>, <<"c","u","r","l">>>>,
          Cat(<<Lit(<<"i","n","t","e","r","n","e","t">>), Ws, Alt(<<Lit(<<"i","n","f","o">>), Lit(<<"s","t","a","t","u","s">>)>>)>>))
      , P("network", <<<<"p","i","n","g">>, <<"c","u","r","l">>>>,
          Cat(<<Lit(<<"c","o","n","n","e","c","t","i","o","n">>), Ws, Lit(<<"s","t","a","t","u","s">>)>>))
      , P("help", <<<<"h","e","l","p">>>>,
          Cat(<<Lit(<<"h","e","l","p">>), Ws, Lit(<<"m","e">>)>>))
      , P("help", <<<<"h","e","l","p">>>>,
          Cat(<<Lit(<<"h","o","w">>), Ws, Lit(<<"t","o">>), Ws, Rest>>))
      , P("help", <<<<"h","e","l","p">>>>,
          Cat(<<Lit(<<"w","h","a","t">>), Ws, Lit(<<"c","a","n">>), Ws, Lit(<<"i">>), Ws, Lit(<<"d","o">>)>>))
      , P("help", <<<<"h","e","l","p">>>>,
          Cat(<<Lit(<<"s","h","o","w">>), Ws, Lit(<<"c","o","m","m","a","n","d","s">>)>>))
    >>

(* The matcher of re: the positions at which a match of the expressions    *)
(* res, one after the other, can end when it starts at one of the          *)
(* positions ps, in the order in which backtracking tries them (greedy     *)
(* repetition first, alternatives from left to right).  A position is the  *)
(* number of characters before it.                                         *)
RECURSIVE Ends(_, _, _)
Ends(res, text, ps) ==
    IF Len(res) = 0 THEN ps
    ELSE IF Len(ps) = 0 THEN <<>>
    ELSE IF Len(ps) > 1
    THEN Ends(res, text, <<ps[1]>>) \o Ends(res, text, Tail(ps))
    ELSE LET re  == res[1]
             pos == ps[1]
             Fits(c) == IF re.k = "ws" THEN c \in Whitespace ELSE c # "\n"
             run == CHOOSE n \in 0..(Len(text) - pos) :
                       /\ \A i \in 1..n : Fits(text[pos + i])
                       /\ (n = Len(text) - pos \/ ~Fits(text[pos + n + 1]))
             first ==
                 CASE re.k = "lit" ->
                          IF /\ pos + Len(re.s) <= Len(text)
                             /\ SubSeq(text, pos + 1, pos + Len(re.s)) = re.s
                          THEN <<pos + Len(re.s)>> ELSE <<>>
                   [] re.k \in {"ws", "any"} -> [i \in 1..run |-> pos + run + 1 - i]
                   [] re.k = "opt" -> Ends(re.rs, text, ps) \o ps
                   [] re.k = "alt" ->
                          IF Len(re.rs) = 0 THEN <<>>
                          ELSE Ends(<<re.rs[1]>>, text, ps)
                               \o Ends(<<[re EXCEPT !.rs = Tail(@)]>>, text, ps)
                   [] re.k = "seq" -> Ends(re.rs, text, ps)
         IN  Ends(Tail(res), text, first)

(* len(re.search(pattern, text).group()), or -1 when there is no match:    *)
(* the first match found from the leftmost start that has one              *)
SearchLength(pattern, text) ==
    LET Hits(s) == Ends(<<pattern>>, text, <<s>>)
        starts == {s \in 0..Len(text) : Len(Hits(s)) > 0}
        Leftmost(s) == Hits(s)[1] - s
    IN  IF starts = {} THEN 0 - 1
        ELSE Leftmost(CHOOSE s \in starts : \A other \in starts : s <= other)

(* process_natural_language(text): an exact registry name is answered as   *)
(* such; otherwise the first pattern of the highest confidence             *)
(* len(match)/len(text) wins when that is above 0.3; otherwise help        *)
ProcessNaturalLanguage(input) ==
    LET text == Strip(Lower(input))
        names == RegistryNames
        lengths == [n \in DOMAIN CommandPatterns |->
                       SearchLength(CommandPatterns[n].pattern, text)]
        best_length == CHOOSE l \in {lengths[n] : n \in DOMAIN lengths} :
                           \A n \in DOMAIN lengths : lengths[n] <= l
        best_match == CHOOSE n \in DOMAIN lengths :
                          /\ lengths[n] = best_length
                          /\ \A m \in DOMAIN lengths : lengths[m] = best_length => n <= m
    IN  IF text \in names
        THEN [type |-> "exact_match", category |-> "", suggestions |-> <<text>>]
        ELSE IF best_length > 0 /\ 10 * best_length > 3 * Len(text)
        THEN [type |-> "pattern_match",
              category |-> CommandPatterns[best_match].category,
              suggestions |-> CommandPatterns[best_match].suggestions]
        ELSE [type |-> "no_match", category |-> "", suggestions |-> <<<<"h","e","l","p">>>>]

(* The texts given to the processor                                        *)
AdviceTexts ==
    { <<>>, <<"L","S">>, <<" "," ","L","i","s","t"," "," ","F","i","l","e","s"," ">>, <<"s","y","s","t","e","m"," ","i","n","f","o">>, <<"w","h","a","t","'","s"," ","m","y"," ","s","y","s","t","e","m">>
    , <<"c","p","u"," ","u","s","a","g","e">>, <<"g","o"," ","t","o"," ","a">>, <<"r","m"," ","-","r","f"," ","x">>, <<"h","e","l","l","o">>
    , <<"c","o","m","p","u","t","e","r"," ","i","n","f","o"," ","i","s"," ","w","h","a","t"," ","i"," ","w","o","u","l","d"," ","l","i","k","e"," ","t","o"," ","s","e","e"," ","h","e","r","e">> }

(* A call of process_natural_language, as made by the /api/ai/process      *)
(* route; the engine is only read (supported_commands)                     *)
ProcessNaturalLanguageCall(text) ==
    /\ reply' = [made |-> TRUE, function |-> "process_natural_language",
                 argument |-> text, result |-> ProcessNaturalLanguage(text)]
    /\ UNCHANGED <<current_directory, command_history, fs, clock, last,
                   requests, posts, console>>

AdviceNext ==
    \/ \E command \in {<<"c","d"," ","a">>, <<"m","k","d","i","r"," ","B">>, <<"t","o","u","c","h"," ","n">>, <<"r","m"," ","-","r"," ","d">>} :
          Execute(command, DefaultEnv)
    \/ \E text \in AdviceTexts : ProcessNaturalLanguageCall(text)

AdviceSpec == Init /\ [][AdviceNext]_vars
----------------------------------------------------------------------------
(* Properties                                                              *)

(* What the properties say of a command line is stated on the text itself  *)
OnlyWhitespace(text) == \A i \in 1..Len(text) : text[i] \in {" ", "\t", "\n"}

Submitted == last.made /\ ~OnlyWhitespace(last.command)
LastName == CommandName(last.command)
LastArgs == CommandArgs(last.command)
LastEntry == command_history[Len(command_history)]

(* C1: after any sequence of execute calls, currentDirectory is an         *)
(* absolute path naming a directory that exists in the file system.        *)
C1_DirectoryExists ==
    IsAbs(current_directory) /\ IsDir(fs, current_directory)

(* C2: every execute call with a non-blank command line appends exactly    *)
(* one entry to the end of the history, whatever the outcome; the entry    *)
(* holds the original unsplit text and the directory before dispatch, and  *)
(* the earlier entries keep position and content.                          *)
C2_HistoryAppend ==
    [][ (last'.made /\ ~OnlyWhitespace(last'.command)) =>
          /\ Len(command_history') = Len(command_history) + 1
          /\ SubSeq(command_history', 1, Len(command_history)) = command_history
          /\ command_history'[Len(command_history')].command = last'.command
          /\ command_history'[Len(command_history')].directory = current_directory
      ]_vars

C2_Witness ==
    /\ Submitted
    /\ Len(command_history) = 2
    /\ LastEntry.command = last.command
    /\ LastEntry.directory = last.directory
    /\ current_directory # last.directory

(* C3: execute on an empty or whitespace-only line returns ("", 0, "") and *)
(* leaves the history and currentDirectory unchanged.                      *)
C3_BlankIsNoOp ==
    [][ (last'.made /\ OnlyWhitespace(last'.command)) =>
          /\ last'.output = <<>>
          /\ last'.exit_code = 0
          /\ last'.error = <<>>
          /\ command_history' = command_history
          /\ current_directory' = current_directory
      ]_vars

C3_Witness ==
    /\ last.made
    /\ last.command = <<" ","\t"," ">>
    /\ last.output = <<>> /\ last.exit_code = 0 /\ last.error = <<>>
    /\ Len(command_history) = 1

CdCall == Submitted /\ LastName = <<"c","d">>
CdTyped == LastArgs[1]
CdExpanded == IF CdTyped = <<"~">> THEN HomeDirectory ELSE CdTyped
CdNamed == CdCall /\ LastArgs # <<>> /\ CdTyped # <<"-">>
CdRefused == CdCall /\ (LastArgs = <<>> \/ CdTyped = <<"-">>)

(* The target followed from currentDirectory component by component, as    *)
(* the file system resolves a path                                         *)
CdUnresolved ==
    CdNamed /\ ~IsDir(fs, PathJoin(last.directory, CdExpanded))

(* The target joined to currentDirectory and normalised as text first      *)
(* (. and .. removed lexically), then looked up                            *)
CdFails ==
    CdNamed /\ ~IsDir(fs, AbsPath(PathJoin(last.directory, CdExpanded)))

(* C4 as stated: a cd whose target does not resolve, relative to           *)
(* currentDirectory, to an existing directory leaves currentDirectory      *)
(* unchanged and returns a message that contains the target as typed; cd   *)
(* without argument and cd - leave the directory unchanged.                *)
C4_MessageHasTypedTarget ==
    /\ CdUnresolved => /\ current_directory = last.directory
                       /\ Contains(last.output, CdTyped)
    /\ CdRefused => current_directory = last.directory

(* C4 amended: a cd whose target, joined to currentDirectory and           *)
(* normalised lexically, does not name an existing directory leaves        *)
(* currentDirectory unchanged and returns a message that contains the      *)
(* target, which for ~ is the home directory path that ~ expands to; cd    *)
(* without argument and cd - leave the directory unchanged.                *)
C4_MessageHasExpandedTarget ==
    /\ CdFails => /\ current_directory = last.directory
                  /\ Contains(last.output, CdExpanded)
    /\ CdRefused => current_directory = last.directory

C4_Witness ==
    /\ CdFails
    /\ CdTyped = <<"~">>
    /\ current_directory = last.directory
    /\ Contains(last.output, HomeDirectory)

InsideExecute == {"parsed", "resolved", "child"}

(* C5: two simultaneous POST /execute requests on the shared engine are    *)
(* serialized: at no time are two requests inside execute_command.         *)
C5_Serialized ==
    Cardinality({t \in Threads : requests[t].pc \in InsideExecute}) <= 1

(* C6: a command line whose case-folded first word is not a built-in is    *)
(* forwarded to the external fallback unchanged, run with                  *)
(* currentDirectory as working directory, and the exit code of the result  *)
(* is the child's exit code.                                               *)
C6_ExternalForward ==
    (Submitted /\ LastName \notin HandledNames) =>
        /\ last.external.called
        /\ last.external.command = last.command
        /\ last.external.cwd = last.directory
        /\ last.external.spawned => last.exit_code = last.external.returncode

C6_Witness ==
    /\ Submitted
    /\ last.command = <<" ","f","r","o","b","n","i","c","a","t","e","1","2","3"," "," ","-","x"," ">>
    /\ last.external.spawned
    /\ last.external.returncode = 127
    /\ last.exit_code = 127
    /\ last.directory # ProcessCwd
    /\ last.external.cwd = last.directory

(* C7: a command line goes to the external fallback if and only if its    *)
(* case-folded name is absent from the command registry.                   *)
C7_RegistryDispatch ==
    Submitted => (last.external.called <=> LastName \notin RegistryNames)

LastNames == SelectSeq(LastArgs, NotFlagR)

MissingOperand ==
    \/ LastName \in {<<"c","d">>, <<"m","k","d","i","r">>, <<"r","m","d","i","r">>, <<"c","a","t">>, <<"t","o","u","c","h">>, <<"f","i","n","d">>}
       /\ LastArgs = <<>>
    \/ LastName = <<"r","m">> /\ LastNames = <<>>
    \/ LastName = <<"c","p">> /\ Len(LastNames) < 2
    \/ LastName = <<"m","v">> /\ Len(LastArgs) < 2
    \/ LastName = <<"g","r","e","p">> /\ Len(LastArgs) < 2

BadPath ==
    \/ CdFails
    \/ LastName = <<"f","i","n","d">> /\ LastArgs # <<>>
       /\ ~Exists(fs, PathJoin(last.directory, LastArgs[1]))
    \/ LastName = <<"r","m","d","i","r">>
       /\ \E i \in 1..Len(LastArgs) :
             LET w == Walk(fs, PathJoin(last.directory, LastArgs[i]))
             IN  w.err = "" /\ w.node \in DOMAIN fs /\ Children(fs, w.node) # {}

(* C8: for every built-in command an expected user-facing failure (bad     *)
(* path, missing operand, non-empty directory for rmdir) yields exit code  *)
(* 0, an empty errorMessage and a non-empty output that starts with the    *)
(* command name.                                                           *)
C8_FailureIsReported ==
    (Submitted /\ LastName \in HandledNames /\ (MissingOperand \/ BadPath)) =>
        /\ last.exit_code = 0
        /\ last.error = <<>>
        /\ last.output # <<>>
        /\ StartsWith(last.output, LastName)

(* C9: a failure a built-in handler does not catch is returned as          *)
(* ("", 1, description) with a non-empty description; currentDirectory is  *)
(* unchanged, the history entry of the command remains and the engine      *)
(* accepts further commands.                                               *)
C9_UncaughtFailure ==
    last.raised =>
        /\ last.output = <<>>
        /\ last.exit_code = 1
        /\ last.error # <<>>
        /\ current_directory = last.directory
        /\ command_history # <<>>
        /\ LastEntry.command = last.command
        /\ clock < MaxHistory => ENABLED Execute(<<"p","w","d">>, DefaultEnv)

C9_Witness ==
    /\ last.raised
    /\ last.error = IndexErrorText
    /\ Len(command_history) = 2
    /\ last.directory # ProcessCwd

(* C10 as stated: when a built-in handler raises, execute returns exit     *)
(* code 1 and the failure's message is in the output field.                *)
C10_MessageInOutput ==
    last.raised => /\ last.exit_code = 1
                   /\ last.output = last.failure

(* C10 amended: when a built-in handler raises, execute returns exit code  *)
(* 1, the failure's message is in the errorMessage field and the output    *)
(* is empty.                                                               *)
C10_MessageInError ==
    last.raised => /\ last.exit_code = 1
                   /\ last.error = last.failure
                   /\ last.output = <<>>

C10_Witness ==
    /\ last.raised
    /\ last.failure = MetricsFailureText
    /\ last.error = MetricsFailureText
    /\ last.exit_code = 1


ExitCall(call) ==
    /\ call.made
    /\ ~OnlyWhitespace(call.command)
    /\ CommandName(call.command) \in {<<"e","x","i","t">>, <<"q","u","i","t">>}

(* C11: execute of exit or quit, in any letter case and with or without    *)
(* arguments, returns the output Goodbye! with exit code 0 and an empty    *)
(* errorMessage, changes nothing but the history, to which it appends the  *)
(* entry of the call, and leaves the engine able to take the next call.    *)
C11_ExitOnlyAnswers ==
    /\ [][ ExitCall(last') =>
             /\ last'.output = <<"G","o","o","d","b","y","e","!">>
             /\ last'.exit_code = 0
             /\ last'.error = <<>>
             /\ current_directory' = current_directory
             /\ fs' = fs
             /\ command_history' =
                  Append(command_history,
                         [command |-> last'.command, timestamp |-> clock,
                          directory |-> current_directory])
         ]_vars
    /\ [](ExitCall(last) /\ clock < MaxHistory
            => ENABLED Execute(<<"p","w","d">>, DefaultEnv))

C11_Witness ==
    /\ ExitCall(last)
    /\ last.command = <<"Q","U","I","T"," ","n","o","w">>
    /\ last.output = <<"G","o","o","d","b","y","e","!">>
    /\ Len(command_history) = 2
    /\ command_history[1].command = <<"e","x","i","t">>

HistoryCall == Submitted /\ LastName = <<"h","i","s","t","o","r","y">>

(* C12: with n entries in the history when the history handler runs, the   *)
(* history command lists the last min(n, 20) entries, oldest first, on     *)
(* lines numbered from 1; the last line listed is the history command      *)
(* itself, the answer for an empty history is never returned, and the log  *)
(* itself keeps every entry.                                               *)
C12_HistoryWindowed ==
    /\ [](HistoryCall =>
            LET n == Len(command_history)
                m == IF n < 20 THEN n ELSE 20
                lines == SplitOn(last.output, {"\n"})
            IN  /\ n >= 1
                /\ last.output # <<"N","o"," ","c","o","m","m","a","n","d"," ","h","i","s","t","o","r","y"," ","a","v","a","i","l","a","b","l","e",".">>
                /\ last.exit_code = 0
                /\ Len(lines) = m + 3
                /\ lines[1] = <<"C","o","m","m","a","n","d"," ","H","i","s","t","o","r","y",":">>
                /\ lines[m + 3] = <<>>
                /\ \A i \in 1..m :
                     lines[2 + i] \o Newline
                       = HistoryLines(<<command_history[n - m + i]>>, i)
                /\ command_history[n].command = last.command)
    /\ [][ (last'.made /\ ~OnlyWhitespace(last'.command)) =>
             /\ Len(command_history') = Len(command_history) + 1
             /\ SubSeq(command_history', 1, Len(command_history)) = command_history
         ]_vars

C12_Witness ==
    /\ HistoryCall
    /\ Len(command_history) = 22
    /\ Contains(last.output, <<"\n"," "," ","1"," "," ","0","0",":","0","0",":","0","0"," "," ","e","c","h","o"," ","3","\n">>)
    /\ ~Contains(last.output, <<"e","c","h","o"," ","2","\n">>)
    /\ Contains(last.output, <<"\n"," ","2","0"," "," ","0","0",":","0","0",":","0","0"," "," ","h","i","s","t","o","r","y","\n">>)

Named(call, name) ==
    /\ call.made
    /\ ~OnlyWhitespace(call.command)
    /\ CommandName(call.command) = name

NamesOf(call) == SelectSeq(CommandArgs(call.command), NotFlagR)
Recursive(call) == FlagR \in SeqToSet(CommandArgs(call.command))

(* The nodes of f at and beneath the directory the path p names            *)
TreeAt(f, p) == {n \in DOMAIN f : IsUnder(n, Walk(f, p).node)}

(* C13: rm of one name that is an existing directory, without -r, returns  *)
(* a message that names the directory and says why, and leaves the         *)
(* directory and its contents in place; with -r it returns empty output    *)
(* and neither the directory nor anything beneath it exists afterwards.    *)
C13_RmDirectory ==
    [][ (/\ Named(last', <<"r","m">>)
         /\ Len(NamesOf(last')) = 1
         /\ IsDir(fs, PathJoin(current_directory, NamesOf(last')[1]))) =>
          LET name == NamesOf(last')[1]
              target == PathJoin(current_directory, name)
          IN  IF Recursive(last')
              THEN /\ last'.output = <<>>
                   /\ last'.exit_code = 0
                   /\ TreeAt(fs, target) \cap DOMAIN fs' = {}
                   /\ fs' = Without(fs, TreeAt(fs, target))
              ELSE /\ StartsWith(last'.output,
                                 <<"r","m",":"," ","c","a","n","n","o","t"," ","r","e","m","o","v","e"," ","'">> \o name \o <<"'",":"," ">>)
                   /\ Contains(last'.output, <<"I","s"," ","a"," ","d","i","r","e","c","t","o","r","y">>)
                   /\ last'.exit_code = 0
                   /\ fs' = fs
      ]_vars

C13_Witness ==
    /\ Named(last, <<"r","m">>)
    /\ last.command = <<"r","m"," ","-","r"," ","d">>
    /\ last.output = <<>>
    /\ Len(command_history) = 2
    /\ command_history[1].command = <<"r","m"," ","d">>
    /\ InitialFs[<<<<"d">>, <<"g">>>>].kind = "file"
    /\ DOMAIN fs = DOMAIN InitialFs \ {<<<<"d">>>>, <<<<"d">>, <<"g">>>>}

(* C14: rm returns the missing-operand message whenever no names are       *)
(* given, also when the only argument is the flag -r, and then removes     *)
(* nothing.                                                                *)
C14_RmMissingOperand ==
    [][ (Named(last', <<"r","m">>) /\ NamesOf(last') = <<>>) =>
          /\ last'.output = <<"r","m",":"," ","m","i","s","s","i","n","g"," ","o","p","e","r","a","n","d">>
          /\ fs' = fs
      ]_vars

(* C15: cp and mv return the missing-destination message whenever fewer    *)
(* than 2 arguments remain, for cp after the flag -r is removed, and then  *)
(* copy or move nothing.                                                   *)
C15_MissingDestination ==
    [][ /\ (Named(last', <<"c","p">>) /\ Len(NamesOf(last')) < 2) =>
              /\ last'.output = <<"c","p",":"," ","m","i","s","s","i","n","g"," ","d","e","s","t","i","n","a","t","i","o","n"," ","f","i","l","e"," ","o","p","e","r","a","n","d">>
              /\ fs' = fs
        /\ (Named(last', <<"m","v">>) /\ Len(CommandArgs(last'.command)) < 2) =>
              /\ last'.output = <<"m","v",":"," ","m","i","s","s","i","n","g"," ","d","e","s","t","i","n","a","t","i","o","n"," ","f","i","l","e"," ","o","p","e","r","a","n","d">>
              /\ fs' = fs
      ]_vars

(* The tree at the path p of f, by the names beneath p                     *)
TreeOf(f, p) ==
    LET top == Walk(f, p).node
    IN  [s \in {SubSeq(n, Len(top) + 1, Len(n)) : n \in TreeAt(f, p)} |-> f[top \o s]]

(* C16: cp -r src dst, with src an existing directory and dst not          *)
(* existing, puts at dst a tree with the file names and contents of src    *)
(* and leaves src and the rest of the file system as they were; mv a b,    *)
(* with a existing and b not existing or an existing directory without an  *)
(* entry of a's name, leaves b present and a absent.                       *)
C16_CopyKeepsMoveTakes ==
    [][ /\ (/\ Named(last', <<"c","p">>)
            /\ Recursive(last')
            /\ Len(NamesOf(last')) = 2
            /\ IsDir(fs, PathJoin(current_directory, NamesOf(last')[1]))
            /\ ~Exists(fs, PathJoin(current_directory, NamesOf(last')[2]))) =>
              LET src == PathJoin(current_directory, NamesOf(last')[1])
                  dst == PathJoin(current_directory, NamesOf(last')[2])
              IN  /\ last'.output = <<>>
                  /\ IsDir(fs', dst)
                  /\ TreeOf(fs', dst) = TreeOf(fs, src)
                  /\ TreeOf(fs', src) = TreeOf(fs, src)
                  /\ \A n \in DOMAIN fs : n \in DOMAIN fs' /\ fs'[n] = fs[n]
                  /\ DOMAIN fs' = DOMAIN fs \cup TreeAt(fs', dst)
        /\ (/\ Named(last', <<"m","v">>)
            /\ Len(CommandArgs(last'.command)) = 2
            /\ Exists(fs, PathJoin(current_directory, CommandArgs(last'.command)[1]))
            /\ LET a == PathJoin(current_directory, CommandArgs(last'.command)[1])
                   b == PathJoin(current_directory, CommandArgs(last'.command)[2])
               IN  \/ Walk(fs, b).err = "" /\ ~Exists(fs, b)
                   \/ /\ IsDir(fs, b)
                      /\ ~IsUnder(Walk(fs, b).node, Walk(fs, a).node)
                      /\ ~Exists(fs, PathJoin(b, BaseName(a)))) =>
              LET a == PathJoin(current_directory, CommandArgs(last'.command)[1])
                  b == PathJoin(current_directory, CommandArgs(last'.command)[2])
                  to == IF IsDir(fs, b) THEN PathJoin(b, BaseName(a)) ELSE b
              IN  /\ last'.output = <<>>
                  /\ Exists(fs', b)
                  /\ ~Exists(fs', a)
                  /\ TreeOf(fs', to) = TreeOf(fs, a)
      ]_vars

C16_Witness ==
    /\ Named(last, <<"c","p">>)
    /\ last.command = <<"c","p"," ","-","r"," ","d"," ","e">>
    /\ last.output = <<>>
    /\ Len(command_history) = 2
    /\ command_history[1].command = <<"m","v"," ","a"," ","b">>
    /\ DOMAIN fs = (DOMAIN InitialFs \ {<<<<"a">>>>})
                   \cup {<<<<"b">>>>, <<<<"e">>>>, <<<<"e">>, <<"g">>>>}
    /\ fs[<<<<"e">>, <<"g">>>>] = InitialFs[<<<<"d">>, <<"g">>>>]
    /\ fs[<<<<"d">>, <<"g">>>>] = InitialFs[<<<<"d">>, <<"g">>>>]

(* What a find call reports, as a set of lines                             *)
Reported(call) ==
    IF call.output = <<>> THEN {} ELSE SeqToSet(SplitOn(call.output, {"\n"}))

(* The entries beneath the directory start whose name passes the filter,   *)
(* as paths relative to the directory from                                 *)
Beneath(f, start, filter, from) ==
    {RelPath(Slash \o Join(Slash, n), from) :
        n \in {k \in TreeAt(f, start) :
                 /\ k # Walk(f, start).node
                 /\ filter = <<"*">> \/ Contains(k[Len(k)], filter)}}

(* C17: find without arguments starts at . with the filter *, so that it   *)
(* reports every file and directory beneath currentDirectory as a set of   *)
(* paths relative to currentDirectory; with a second argument other than   *)
(* * it reports the entries whose name contains that argument.             *)
C17_FindDefaults ==
    Named(last, <<"f","i","n","d">>) =>
        LET args   == CommandArgs(last.command)
            path   == IF args = <<>> THEN Dot ELSE args[1]
            filter == IF Len(args) > 1 THEN args[2] ELSE <<"*">>
            start  == PathJoin(current_directory, path)
        IN  IsDir(fs, start) =>
              Reported(last) = Beneath(fs, start, filter, current_directory)

(* The lines of a text file, without their line ends                       *)
TextLines(data) ==
    LET pieces == SplitOn(data, {"\n"})
    IN  IF pieces[Len(pieces)] = <<>> THEN SubSeq(pieces, 1, Len(pieces) - 1)
        ELSE pieces

(* The lines grep owes for one readable file, from line k on               *)
RECURSIVE MatchesFrom(_, _, _, _)
MatchesFrom(file, pattern, lines, k) ==
    IF k > Len(lines) THEN <<>>
    ELSE (IF Contains(lines[k], pattern)
          THEN <<[error |-> FALSE,
                  text |-> file \o <<":">> \o Decimal(k) \o <<":">> \o Strip(lines[k])]>>
          ELSE <<>>)
         \o MatchesFrom(file, pattern, lines, k + 1)

(* The lines grep owes for the files, in the order of the files            *)
RECURSIVE Owed(_, _, _, _)
Owed(files, pattern, f, cwd) ==
    IF files = <<>> THEN <<>>
    ELSE LET w == Walk(f, PathJoin(cwd, Head(files)))
             readable == w.err = "" /\ w.node \in DOMAIN f /\ f[w.node].kind = "file"
         IN  (IF readable
              THEN MatchesFrom(Head(files), pattern, TextLines(f[w.node].data), 1)
              ELSE <<[error |-> TRUE, text |-> <<"g","r","e","p",":"," ">> \o Head(files) \o <<":"," ">>]>>)
             \o Owed(Tail(files), pattern, f, cwd)

Attempt(name, f, p) ==
    IF name = <<"m","k","d","i","r">> THEN OsMakedirs(f, p) ELSE OsRmdir(f, p)

(* The file system once the first k names of a call have succeeded         *)
RECURSIVE AfterNames(_, _, _, _, _)
AfterNames(name, names, k, f, cwd) ==
    IF k = 0 THEN f
    ELSE Attempt(name, AfterNames(name, names, k - 1, f, cwd),
                 PathJoin(cwd, names[k])).fs

(* The k-th name is the first whose attempt fails                          *)
FirstFailure(name, names, k, f, cwd) ==
    /\ \A j \in 1..(k - 1) :
         Attempt(name, AfterNames(name, names, j - 1, f, cwd),
                 PathJoin(cwd, names[j])).err = ""
    /\ Attempt(name, AfterNames(name, names, k - 1, f, cwd),
               PathJoin(cwd, names[k])).err # ""

BatchMessage(name, operand) ==
    IF name = <<"m","k","d","i","r">>
    THEN <<"m","k","d","i","r",":"," ","c","a","n","n","o","t"," ","c","r","e","a","t","e"," ","d","i","r","e","c","t","o","r","y"," ","'">> \o operand \o <<"'",":"," ">>
    ELSE <<"r","m","d","i","r",":"," ","f","a","i","l","e","d"," ","t","o"," ","r","e","m","o","v","e"," ","'">> \o operand \o <<"'",":"," ">>

(* C19: mkdir and rmdir take their names in argument order and stop at     *)
(* the first name that fails: the message returned is the one for that     *)
(* name, the names after it are not attempted, and what was done for the   *)
(* names before it stays done.                                             *)
C19_BatchStopsAtFailure ==
    [][ \A name \in {<<"m","k","d","i","r">>, <<"r","m","d","i","r">>} :
          Named(last', name) =>
            LET names == CommandArgs(last'.command)
            IN  \A k \in 1..Len(names) :
                  FirstFailure(name, names, k, fs, current_directory) =>
                    /\ StartsWith(last'.output, BatchMessage(name, names[k]))
                    /\ fs' = Attempt(name,
                                     AfterNames(name, names, k - 1, fs, current_directory),
                                     PathJoin(current_directory, names[k])).fs
                    /\ \A j \in 1..(k - 1) :
                         IF name = <<"m","k","d","i","r">>
                         THEN IsDir(fs', PathJoin(current_directory, names[j]))
                         ELSE ~Exists(fs', PathJoin(current_directory, names[j]))
                    /\ \A j \in (k + 1)..Len(names) :
                         Exists(fs', PathJoin(current_directory, names[j]))
                           = Exists(AfterNames(name, names, k - 1, fs, current_directory),
                                    PathJoin(current_directory, names[j]))
      ]_vars

C19_Witness ==
    /\ Named(last, <<"m","k","d","i","r">>)
    /\ last.command = <<"m","k","d","i","r"," ","n"," ","f","/","x"," ","m">>
    /\ StartsWith(last.output, <<"m","k","d","i","r",":"," ","c","a","n","n","o","t"," ","c","r","e","a","t","e"," ","d","i","r","e","c","t","o","r","y"," ","'","f","/","x","'",":"," ">>)
    /\ Len(command_history) = 2
    /\ command_history[1].command = <<"r","m","d","i","r"," ","a"," ","d"," ","h">>
    /\ DOMAIN fs = (DOMAIN InitialFs \ {<<<<"a">>>>}) \cup {<<<<"n">>>>}

(* The path of the first k components of the operand, from the directory   *)
UpTo(cwd, operand, k) ==
    PathJoin(cwd, Join(Slash, SubSeq(SplitOn(operand, {"/"}), 1, k)))

(* C20: mkdir of a directory that exists returns empty output and leaves   *)
(* the file system, the contents of the directory included, as it was;     *)
(* mkdir a/b with a missing makes a as well as a/b; rmdir removes a        *)
(* directory only when it is empty: an empty one is removed, one with      *)
(* entries stays in place with its contents.                               *)
C20_MkdirIdempotent ==
    [][ /\ (/\ Named(last', <<"m","k","d","i","r">>)
            /\ Len(CommandArgs(last'.command)) = 1
            /\ IsDir(fs, PathJoin(current_directory, CommandArgs(last'.command)[1]))) =>
              /\ last'.output = <<>>
              /\ last'.exit_code = 0
              /\ fs' = fs
        /\ (/\ Named(last', <<"m","k","d","i","r">>)
            /\ Len(CommandArgs(last'.command)) = 1
            /\ Len(SplitOn(CommandArgs(last'.command)[1], {"/"})) = 2
            /\ IsDir(fs, current_directory)
            /\ ~Exists(fs, UpTo(current_directory, CommandArgs(last'.command)[1], 1))) =>
              /\ last'.output = <<>>
              /\ IsDir(fs', UpTo(current_directory, CommandArgs(last'.command)[1], 1))
              /\ IsDir(fs', UpTo(current_directory, CommandArgs(last'.command)[1], 2))
              /\ \A n \in DOMAIN fs : n \in DOMAIN fs' /\ fs'[n] = fs[n]
        /\ Named(last', <<"r","m","d","i","r">>) =>
              /\ \A n \in DOMAIN fs \ DOMAIN fs' :
                   fs[n].kind = "dir" /\ Children(fs, n) \subseteq DOMAIN fs \ DOMAIN fs'
              /\ \A n \in DOMAIN fs' : n \in DOMAIN fs /\ fs'[n] = fs[n]
              /\ Len(CommandArgs(last'.command)) = 1 =>
                   LET p == PathJoin(current_directory, CommandArgs(last'.command)[1])
                   IN  IsDir(fs, p) =>
                         IF Children(fs, Walk(fs, p).node) = {}
                         THEN last'.output = <<>> /\ ~Exists(fs', p)
                         ELSE last'.output # <<>> /\ fs' = fs
      ]_vars

C20_Witness ==
    /\ Named(last, <<"m","k","d","i","r">>)
    /\ last.command = <<"m","k","d","i","r"," ","d">>
    /\ last.output = <<>>
    /\ Len(command_history) = 2
    /\ command_history[1].command = <<"m","k","d","i","r"," ","m","/","k">>
    /\ DOMAIN fs = DOMAIN InitialFs \cup {<<<<"m">>>>, <<<<"m">>, <<"k">>>>}
    /\ fs[<<<<"d">>, <<"g">>>>] = InitialFs[<<<<"d">>, <<"g">>>>]

LsCall(call) ==
    /\ call.made
    /\ ~OnlyWhitespace(call.command)
    /\ CommandName(call.command) \in {<<"l","s">>, <<"d","i","r">>}

ShowsAll(call) ==
    SeqToSet(CommandArgs(call.command)) \cap {<<"-","a">>, <<"-","-","a","l","l">>} # {}

(* The names a listing shows, line by line: the whole line in the simple   *)
(* format, its last word in the long format                                *)
ListedNames(call) ==
    LET lines == IF call.output = <<>> THEN <<>>
                 ELSE SplitOn(call.output, {"\n"})
        LastWord(line) == LET words == SplitOn(line, {" "}) IN words[Len(words)]
    IN  [i \in 1..Len(lines) |-> LastWord(lines[i])]

(* C21: ls lists the entries of currentDirectory, those whose name starts  *)
(* with . only under -a or --all, one per line and sorted by name in the   *)
(* simple and in the long format; a directory that mkdir has just made     *)
(* is in the default listing; ls repeated at once returns the same output. *)
C21_LsListsDirectory ==
    /\ []((LsCall(last) /\ IsDir(fs, current_directory)) =>
            LET names == ListedNames(last)
                here  == Walk(fs, current_directory).node
            IN  /\ SeqToSet(names) =
                     {n[Len(n)] : n \in {c \in Children(fs, here) :
                                           ShowsAll(last) \/ c[Len(c)][1] # "."}}
                /\ \A i, j \in 1..Len(names) : i < j => TextLess(names[i], names[j]))
    /\ [][ /\ (/\ Named(last, <<"m","k","d","i","r">>)
               /\ last.output = <<>>
               /\ LsCall(last') /\ ~ShowsAll(last')) =>
                 \A k \in 1..Len(CommandArgs(last.command)) :
                    LET operand == CommandArgs(last.command)[k]
                    IN  ("/" \notin SeqToSet(operand) /\ operand[1] # ".")
                          => operand \in SeqToSet(ListedNames(last'))
           /\ (LsCall(last) /\ LsCall(last') /\ last'.command = last.command) =>
                 last'.output = last.output
         ]_vars

C21_Witness ==
    /\ LsCall(last)
    /\ last.command = <<"l","s">>
    /\ Len(command_history) = 2
    /\ command_history[1].command = <<"m","k","d","i","r"," ",".","s"," ","z">>
    /\ last.output = <<"a","\n","d","\n","f","\n","h","\n","z">>
    /\ <<<<".","s">>>> \in DOMAIN fs
    /\ <<<<".","p">>>> \in DOMAIN fs

(* The k-th operand of the call names a regular file of f                  *)
ReadableAt(f, cwd, operand) ==
    LET w == Walk(f, PathJoin(cwd, operand))
    IN  w.err = "" /\ w.node \in DOMAIN f /\ f[w.node].kind = "file"

(* C22: cat returns the contents of its files in argument order with one   *)
(* newline between files; when a file cannot be read the result is the     *)
(* error message for the first such file alone; touch creates an absent    *)
(* name as an empty file, whose cat is empty, and leaves the content of    *)
(* an existing file as it was.                                             *)
C22_CatAndTouch ==
    /\ []((Named(last, <<"c","a","t">>) /\ CommandArgs(last.command) # <<>>) =>
            LET args == CommandArgs(last.command)
                bad  == {k \in 1..Len(args) : ~ReadableAt(fs, current_directory, args[k])}
            IN  IF bad = {}
                THEN last.output =
                       Join(<<"\n">>,
                            [k \in 1..Len(args) |->
                               fs[Walk(fs, PathJoin(current_directory, args[k])).node].data])
                ELSE LET i == CHOOSE k \in bad : \A j \in bad : k <= j
                     IN  /\ StartsWith(last.output, <<"c","a","t",":"," ">> \o args[i] \o <<":"," ">>)
                         /\ Len(last.output) > Len(<<"c","a","t",":"," ">> \o args[i] \o <<":"," ">>)
                         /\ "\n" \notin SeqToSet(last.output))
    /\ [][ (/\ Named(last', <<"t","o","u","c","h">>)
            /\ CommandArgs(last'.command) # <<>>
            /\ \A k \in 1..Len(CommandArgs(last'.command)) :
                 Walk(fs, PathJoin(current_directory, CommandArgs(last'.command)[k])).err = "") =>
              /\ last'.output = <<>>
              /\ \A n \in DOMAIN fs : n \in DOMAIN fs' /\ fs'[n] = fs[n]
              /\ \A n \in DOMAIN fs' \ DOMAIN fs : fs'[n] = [kind |-> "file", data |-> <<>>]
              /\ \A k \in 1..Len(CommandArgs(last'.command)) :
                   Exists(fs', PathJoin(current_directory, CommandArgs(last'.command)[k]))
         ]_vars

C22_Witness ==
    /\ Named(last, <<"c","a","t">>)
    /\ last.command = <<"c","a","t"," ","n">>
    /\ last.output = <<>>
    /\ Len(command_history) = 2
    /\ command_history[1].command = <<"t","o","u","c","h"," ","n">>
    /\ fs[<<<<"n">>>>] = [kind |-> "file", data |-> <<>>]
    /\ <<<<"n">>>> \notin DOMAIN InitialFs

ExternalCall == Submitted /\ last.external.called

(* C23 as stated: for an external command that was spawned the output is   *)
(* the trimmed stdout, followed by a newline and the stderr text only      *)
(* when stderr is non-empty, the exit code is the child's and the          *)
(* errorMessage is empty; when the spawn fails the result is ("", 1,       *)
(* description) with a non-empty description.                              *)
C23_StderrAppended ==
    ExternalCall =>
        IF last.external.spawned
        THEN /\ last.output =
                  Strip(last.external.stdout)
                  \o (IF last.external.stderr # <<>>
                      THEN <<"\n">> \o last.external.stderr ELSE <<>>)
             /\ last.exit_code = last.external.returncode
             /\ last.error = <<>>
        ELSE /\ last.output = <<>>
             /\ last.exit_code = 1
             /\ last.error # <<>>

(* C23 amended: for an external command that was spawned the output is     *)
(* the trimmed stdout, followed by a newline and the trimmed stderr only   *)
(* when stderr is non-empty, the exit code is the child's and the          *)
(* errorMessage is empty; when the spawn fails the result is ("", 1,       *)
(* description) with a non-empty description.                              *)
C23_TrimmedStderrAppended ==
    ExternalCall =>
        IF last.external.spawned
        THEN /\ last.output =
                  Strip(last.external.stdout)
                  \o (IF last.external.stderr # <<>>
                      THEN <<"\n">> \o Strip(last.external.stderr) ELSE <<>>)
             /\ last.exit_code = last.external.returncode
             /\ last.error = <<>>
        ELSE /\ last.output = <<>>
             /\ last.exit_code = 1
             /\ last.error # <<>>

C23_Witness ==
    /\ ExternalCall
    /\ last.external.spawned
    /\ last.external.stdout = <<"o","u","t">>
    /\ last.external.stderr = <<" ","n","o","t"," ","f","o","u","n","d"," ","\n">>
    /\ last.output = <<"o","u","t","\n","n","o","t"," ","f","o","u","n","d">>
    /\ last.exit_code = 127
    /\ last.error = <<>>

----------------------------------------------------------------------------
(* The console loop                                                        *)

(* The step is a turn of the console loop that read the given kind of      *)
(* event                                                                   *)
ConsoleTurn(event) ==
    /\ console.active
    /\ console' # console
    /\ console'.event = event

(* The line just read asks to leave: exit or quit, ignoring case           *)
LeaveLine(line) == Lower(Strip(line)) \in {<<"e","x","i","t">>, <<"q","u","i","t">>}

FrontEndLine(line) == Lower(Strip(line)) \in {<<"e","x","i","t">>, <<"q","u","i","t">>, <<"c","l","e","a","r">>}

(* The step made exactly one call of execute_command, for the given        *)
(* command, and recorded it as one history entry                           *)
OneCall(command) ==
    /\ clock' = clock + 1
    /\ last'.made
    /\ last'.command = command
    /\ Len(command_history') = Len(command_history) + 1
    /\ command_history'[Len(command_history')].command = command

(* The step counted the line and gave it to the engine once, unless it is  *)
(* one the front end handles itself                                        *)
CountedTurn ==
    /\ console'.command_count = console.command_count + 1
    /\ IF FrontEndLine(console'.line)
       THEN UNCHANGED <<current_directory, command_history, fs, clock, last>>
       ELSE OneCall(Strip(console'.line))

(* C29 as stated: in the console loop every non-empty input line results   *)
(* in exactly one call of execute and exactly one history entry, except a  *)
(* line equal (ignoring case) to exit, quit or clear, which the front end  *)
(* handles itself without calling execute and without adding a history     *)
(* entry; the command counter still counts those lines.                    *)
C29_EveryNonEmptyLine ==
    [][ (ConsoleTurn("line") /\ console'.line # <<>>) => CountedTurn ]_vars

(* C29 amended: in the console loop every input line that is not empty     *)
(* once its leading and trailing white space is removed results in exactly *)
(* one call of execute, for the trimmed line, and exactly one history      *)
(* entry, except a line whose trimmed text equals (ignoring case) exit,    *)
(* quit or clear, which the front end handles itself without calling       *)
(* execute and without adding a history entry; the command counter still   *)
(* counts those lines. A line of white space only is skipped: no call, no  *)
(* history entry, not counted.                                             *)
C29_EveryNonBlankLine ==
    [][ (ConsoleTurn("line") /\ Strip(console'.line) # <<>>) => CountedTurn ]_vars

C29_Witness ==
    /\ console.event = "line"
    /\ console.line = <<"C","l","e","a","r">>
    /\ console.command_count = 2
    /\ Len(command_history) = 1
    /\ command_history[1].command = <<"e","x","i","t"," ","n","o","w">>
    /\ console.active

----------------------------------------------------------------------------
(* The web front end's answers                                             *)

(* C25: every response of POST /execute carries the five fields command,   *)
(* output, exit_code, error and directory, and its output, exit_code and   *)
(* error are exactly the triple the engine's execute returns for the       *)
(* submitted command, so that an empty command is answered with output "", *)
(* exit_code 0 and error "".                                               *)
C25_ResponseIsEngineTriple ==
    \A t \in Threads :
        requests[t].pc = "done" =>
            /\ requests[t].response.fields =
                   {"command", "output", "exit_code", "error", "directory"}
            /\ requests[t].response.command = requests[t].command
            /\ TripleOf(requests[t].response) = requests[t].result
            /\ (IsBlank(requests[t].command) =>
                   TripleOf(requests[t].response) = TripleOf(NoResult))

----------------------------------------------------------------------------
(* Where currentDirectory changes                                          *)

(* The path the cd just executed asked for: the target joined to the       *)
(* directory the call started in.  A cd leaves the file system as it was,  *)
(* so the file system after the call is the one the call looked at.        *)
CdJoined == PathJoin(last.directory, CdExpanded)

(* C27 as stated: currentDirectory changes only in a cd whose target       *)
(* resolves, followed from currentDirectory component by component, to an  *)
(* existing directory, and then becomes exactly the absolute normalised    *)
(* path of that target (~ giving the home directory) with empty output;    *)
(* every other execute call leaves currentDirectory unchanged.             *)
C27_ChangesOnlyInResolvingCd ==
    last.made =>
        /\ current_directory # last.directory
           => (CdNamed /\ IsDir(fs, CdJoined))
        /\ (CdNamed /\ IsDir(fs, CdJoined))
           => /\ current_directory = AbsPath(CdJoined)
              /\ last.output = <<>>

(* C27 amended: currentDirectory changes only in a cd whose target, joined *)
(* to currentDirectory and normalised lexically, names an existing         *)
(* directory, and then becomes exactly that absolute normalised path (~    *)
(* giving the home directory) with empty output; every other execute call  *)
(* leaves currentDirectory unchanged.                                      *)
C27_ChangesOnlyInSuccessfulCd ==
    last.made =>
        /\ current_directory # last.directory
           => (CdNamed /\ IsDir(fs, AbsPath(CdJoined)))
        /\ (CdNamed /\ IsDir(fs, AbsPath(CdJoined)))
           => /\ current_directory = AbsPath(CdJoined)
              /\ last.output = <<>>

C27_Witness ==
    /\ CdNamed
    /\ last.command = <<"c","d"," ","f","/",".",".","/","a">>
    /\ last.directory = <<"/">>
    /\ current_directory = <<"/","a">>
    /\ last.output = <<>>

----------------------------------------------------------------------------
(* The directory of a history entry                                        *)

(* C28: for every history entry, the directory recorded in the entry is    *)
(* the directory against which that same command's handler resolved its    *)
(* relative paths, and for an external command the working directory of    *)
(* the spawned process, also when two web requests execute on the shared   *)
(* engine at the same time.                                                *)
C28_EntryDirectoryIsResolvedDirectory ==
    \A t \in Threads :
        ( /\ requests[t].entry # 0
          /\ requests[t].pc \in {"resolved", "child", "respond", "done"} )
        => /\ command_history[requests[t].entry].command = requests[t].command
           /\ command_history[requests[t].entry].directory = requests[t].resolved
           /\ requests[t].external.spawned
              => requests[t].external.cwd = requests[t].resolved

----------------------------------------------------------------------------
(* The permission string                                                   *)

PermissionsCall == reply.made /\ reply.function = "_get_permissions"

(* C30: for every mode value the permission string of ls -l has exactly 9  *)
(* characters, and for i in 0..8 character i is the i-th letter of         *)
(* rwxrwxrwx when bit (8 - i) of the mode is set and - when it is clear;   *)
(* the bits above the low 9 do not affect the result.                      *)
C30_PermissionString ==
    PermissionsCall =>
        /\ Len(reply.result) = 9
        /\ \A i \in 0..8 :
              reply.result[i + 1] =
                  IF (reply.argument \div (2 ^ (8 - i))) % 2 = 1
                  THEN <<"r","w","x","r","w","x","r","w","x">>[i + 1] ELSE "-"
        /\ reply.result = GetPermissions(reply.argument % 512)

C30_Witness ==
    /\ PermissionsCall
    /\ reply.argument = 33188
    /\ reply.result = <<"r","w","-","r","-","-","r","-","-">>

----------------------------------------------------------------------------
(* The natural-language processor                                          *)

AdviceCall == reply.made /\ reply.function = "process_natural_language"

(* C26: the natural-language processor is purely advisory: a call of it    *)
(* leaves currentDirectory, the history and the file system unchanged and  *)
(* makes no call of execute, and every command it suggests is the name of  *)
(* a built-in command of the registry.                                     *)
C26_AdvisoryOnly ==
    /\ [][ reply' # reply
             => UNCHANGED <<current_directory, command_history, fs, clock, last>> ]_vars
    /\ [] ( AdviceCall =>
              \A i \in DOMAIN reply.result.suggestions :
                  reply.result.suggestions[i] \in RegistryNames )
====
